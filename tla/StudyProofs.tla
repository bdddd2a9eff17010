----------------------------- MODULE StudyProofs ------------------------------
(***************************************************************************)
(* The small studies, for every instance.                                  *)
(*                                                                         *)
(* The MCP server's networks are current, for any set of files and any     *)
(* number of edits between any two steps of a call.  A stamp is a promise  *)
(* about the past: while the file still has it, the file has not been      *)
(* edited since it was stamped, so what was listed and read after that is  *)
(* what the file holds now.  AsStamped says this of the network being      *)
(* loaded and of the one kept.                                             *)
(*                                                                         *)
(* And what the continuation walk keeps to on every curve, for any         *)
(* machines, limits and steps, and whatever the corrector and the locators *)
(* do: it goes past no nose unseen, and stands on the curve.               *)
(*                                                                         *)
(* And that a solution of the persistent KLU system is of its own call,    *)
(* for any blocks, patterns and pivots and however earlier calls ended.    *)
(* A failed refactorization leaves values in the workspace.  They are      *)
(* harmless because no column reads a place before some column has         *)
(* scattered an entry of the matrix onto it: the first column that fills   *)
(* a place can have nothing there by elimination, since elimination only   *)
(* puts there what an earlier column holds in that place.                  *)
(*                                                                         *)
(* And that reactive power is dispatched without leaving any on the table, *)
(* for any machines: sums over them are compared term by term.             *)
(*                                                                         *)
(* And that a solve with switches takes for energized what they connect,   *)
(* and ties what they join, for any network.  Labels are reasoned about    *)
(* through the sets they respect, those with every group inside or         *)
(* outside: a union only takes away the sets that part its ends.           *)
(*                                                                         *)
(* And that the factorization of a block holds what elimination fills, for *)
(* any pattern and pivots and however the entries come: what pruning keeps *)
(* out of the search of a column is in the column of a pivot further on,   *)
(* so a row's reach is complete once those of all later places are.        *)
(*                                                                         *)
(* And that the block triangular form is found, for any pattern.  What a   *)
(* failed search for an augmenting path leaves is a set of columns whose   *)
(* rows are all taken by columns of the set, which shows that no matching  *)
(* is larger.  A node's low is the time of a node that no set keeps apart  *)
(* from it, so that where low and time agree the rest of the stack is one  *)
(* strong component.                                                       *)
(*                                                                         *)
(* Sums and unions are folds over finite sets.  What they compute is       *)
(* established by the least set, or number, for which it could fail.       *)
(***************************************************************************)
EXTENDS NetworkSession, Continuation, Refactorization, ReactiveDispatch, SwitchedNetwork,
        LeftLookingLU, BlockTriangular, FiniteSetTheorems, TLAPS

-----------------------------------------------------------------------------
(* The sessions' networks.                                                 *)


File == [there : BOOLEAN, version : Nat]

ClockInv ==
  /\ edits \in Nat
  /\ disk \in [Files -> File] /\ begun \in [Files -> File]
  /\ \A f \in Files : disk[f].version <= edits
  /\ \A f \in Files : /\ begun[f].version <= disk[f].version
                      /\ begun[f].version = disk[f].version => begun[f] = disk[f]

\* What the file shows now, if it is what the stamp says, is in the network.
Untouched(f, of) == disk[f].there /\ disk[f].version = of[f]
Past(of, watched) == \A f \in watched : f \in Files /\ of[f] \in Int /\ of[f] <= edits

\* Stamped after the call began.
StampInv ==
  /\ at # "idle" \/ served # {} => files = {f \in Files : begun[f].there}
  /\ DOMAIN stamps \subseteq files
  /\ Past(stamps, DOMAIN stamps)
  /\ \A f \in DOMAIN stamps : disk[f] = begun[f] => stamps[f] = begun[f].version

LoadInv ==
  at = "loading" =>
    /\ DOMAIN stamps = files
    /\ \A f \in files : Untouched(f, stamps) =>
         f \in list /\ (f \in DOMAIN read => read[f] = stamps[f])

\* At most one network is kept; a solution is of the network kept.
KeptInv ==
  /\ \A k, l \in kept : k = l
  /\ \A k \in kept :
       /\ Past(k.stamps, k.files)
       /\ \A f \in k.files : Untouched(f, k.stamps) =>
            f \in DOMAIN k.net /\ k.net[f] = k.stamps[f]
  /\ solved \subseteq {k.net : k \in kept}

\* What is served is kept, under the stamps this call took.
ServedInv ==
  /\ served # {} => at = "idle"
  /\ served \subseteq {k.net : k \in kept}
  /\ at = "tool" \/ served # {} =>
       \A k \in kept : k.files = files /\ k.stamps = stamps /\ DOMAIN stamps = files

SessionInv == ClockInv /\ StampInv /\ LoadInv /\ KeptInv /\ ServedInv

-----------------------------------------------------------------------------

LEMMA SessionInvInit == SessionInit => SessionInv
<1> SUFFICES ASSUME SessionInit PROVE SessionInv
  OBVIOUS
<1>1. disk \in [Files -> File] /\ \A f \in Files : disk[f].version = 0
  BY DEF SessionInit, File
<1>2. stamps = <<>> /\ DOMAIN stamps = {}
  BY DEF SessionInit
<1> QED
  BY <1>1, <1>2 DEF SessionInit, SessionInv, ClockInv, StampInv, LoadInv, KeptInv,
     ServedInv, Past

\* An edit moves its file out of the reach of every stamp taken before it.
LEMMA EditIsNew ==
  ASSUME SessionInv, Edit
  PROVE  /\ edits' = edits + 1 /\ ClockInv'
         /\ \A f \in Files : \/ disk'[f] = disk[f]
                             \/ disk'[f].version = edits + 1
<1>1. PICK f \in Files, there \in BOOLEAN :
        disk' = [disk EXCEPT ![f] = [there |-> there, version |-> edits + 1]]
  BY DEF Edit
<1>2. edits' = edits + 1 /\ begun' = begun
  BY DEF Edit, answer
<1>3. disk' \in [Files -> File] /\ disk'[f] = [there |-> there, version |-> edits + 1]
  BY <1>1 DEF SessionInv, ClockInv, File
<1>4. \A g \in Files \ {f} : disk'[g] = disk[g]
  BY <1>1 DEF SessionInv, ClockInv
<1>5. disk'[f].version = edits + 1
  BY <1>3
<1>6. \A g \in Files : begun[g].version \in Nat /\ disk[g].version \in Nat
  BY DEF SessionInv, ClockInv, File
<1>7. \A g \in Files : /\ disk'[g].version <= edits + 1
                       /\ begun[g].version <= disk'[g].version
                       /\ begun[g].version = disk'[g].version => begun[g] = disk'[g]
  <2> SUFFICES ASSUME NEW g \in Files
               PROVE  /\ disk'[g].version <= edits + 1
                      /\ begun[g].version <= disk'[g].version
                      /\ begun[g].version = disk'[g].version => begun[g] = disk'[g]
    OBVIOUS
  <2>1. /\ edits \in Nat /\ disk[g].version <= edits /\ begun[g].version <= disk[g].version
        /\ begun[g].version = disk[g].version => begun[g] = disk[g]
    BY DEF SessionInv, ClockInv
  <2>2. CASE g = f
    BY <1>5, <1>6, <2>1, <2>2
  <2>3. CASE g # f
    BY <1>4, <1>6, <2>1, <2>3
  <2> QED
    BY <2>2, <2>3
<1>8. ClockInv'
  BY <1>2, <1>3, <1>7 DEF SessionInv, ClockInv
<1> QED
  BY <1>2, <1>4, <1>5, <1>8

LEMMA EditKeepsInv == ASSUME SessionInv, Edit PROVE SessionInv'
<1>1. /\ edits' = edits + 1 /\ ClockInv' /\ edits \in Nat
      /\ \A f \in Files : disk'[f] = disk[f] \/ disk'[f].version = edits + 1
  BY EditIsNew DEF SessionInv, ClockInv
<1>2. UNCHANGED <<tool, at, files, stamps, list, read, kept, solved, served, begun>>
  BY DEF Edit, loading, session, answer
<1>3. ASSUME NEW of, NEW watched, Past(of, watched)
      PROVE  /\ \A f \in watched : f \in Files /\ of[f] \in Int /\ of[f] <= edits'
             /\ \A f \in watched : disk'[f].there /\ disk'[f].version = of[f]
                                     => Untouched(f, of)
  BY <1>1, <1>3 DEF Past, Untouched
<1>4. StampInv'
  <2>1. ASSUME NEW f \in Files PROVE begun[f].version <= edits
    <3>1. edits \in Nat /\ begun[f].version \in Nat /\ disk[f].version \in Nat
      BY DEF SessionInv, ClockInv, File
    <3>2. disk[f].version <= edits /\ begun[f].version <= disk[f].version
      BY DEF SessionInv, ClockInv
    <3> QED
      BY <3>1, <3>2
  <2>2. \A f \in Files : disk'[f] = begun[f] => disk[f] = begun[f]
    BY <1>1, <2>1
  <2> QED
    BY <1>1, <1>2, <1>3, <2>2 DEF SessionInv, StampInv, Past
<1>5. LoadInv'
  <2>1. Past(stamps, DOMAIN stamps)
    BY DEF SessionInv, StampInv
  <2> QED
    BY <1>2, <1>3, <2>1 DEF SessionInv, LoadInv, Untouched
<1>6. KeptInv'
  <2> SUFFICES ASSUME NEW k \in kept
               PROVE  /\ \A f \in k.files : f \in Files /\ k.stamps[f] \in Int
                                                         /\ k.stamps[f] <= edits'
                      /\ \A f \in k.files :
                           disk'[f].there /\ disk'[f].version = k.stamps[f] =>
                             f \in DOMAIN k.net /\ k.net[f] = k.stamps[f]
    BY <1>2 DEF SessionInv, KeptInv, Past, Untouched
  <2>1. /\ Past(k.stamps, k.files)
        /\ \A f \in k.files : Untouched(f, k.stamps) =>
             f \in DOMAIN k.net /\ k.net[f] = k.stamps[f]
    BY DEF SessionInv, KeptInv
  <2> QED
    BY <1>3, <2>1
<1>7. ServedInv'
  BY <1>2 DEF SessionInv, ServedInv
<1> QED
  BY <1>1, <1>4, <1>5, <1>6, <1>7 DEF SessionInv

\* Every other step leaves the files alone.
LEMMA CallKeepsInv ==
  ASSUME SessionInv,
         \/ CallBegins \/ Refuse \/ StampNext \/ Trust
         \/ LoadBegins \/ LoadNext \/ LoadFails \/ Insert \/ PowerFlow \/ Results
  PROVE  SessionInv'
<1> USE DEF world, loading, session, answer
<1>1. CASE CallBegins
  <2>1. ClockInv'
    <3>1. ASSUME NEW f \in Files PROVE disk[f].version <= disk[f].version
      <4>1. disk[f].version \in Nat
        BY DEF SessionInv, ClockInv, File
      <4> QED
        BY <4>1
    <3>2. UNCHANGED <<disk, edits>> /\ begun' = disk
      BY <1>1 DEF CallBegins
    <3> QED
      BY <3>1, <3>2 DEF SessionInv, ClockInv
  <2>2. DOMAIN stamps' = {} /\ files' = {f \in Files : begun'[f].there}
    BY <1>1 DEF CallBegins, There
  <2> QED
    BY <1>1, <2>1, <2>2 DEF CallBegins, SessionInv, StampInv, LoadInv, KeptInv,
       ServedInv, Past, Untouched
<1>2. CASE Refuse
  BY <1>2 DEF Refuse, SessionInv, ClockInv, StampInv, LoadInv, KeptInv, ServedInv, Past,
     Untouched
<1>3. CASE StampNext
  <2>1. PICK f \in files \ DOMAIN stamps : stamps' = Extend(stamps, f, Stamp(f))
    BY <1>3 DEF StampNext
  <2>2. /\ at = "listed" /\ served = {}
        /\ UNCHANGED <<disk, edits, tool, at, files, list, read, kept, solved, served, begun>>
    BY <1>3 DEF StampNext, SessionInv, ServedInv
  <2>3. files = {g \in Files : begun[g].there}
    BY <2>2 DEF SessionInv, StampInv
  <2>4. /\ DOMAIN stamps' = DOMAIN stamps \cup {f} /\ stamps'[f] = Stamp(f)
        /\ \A g \in DOMAIN stamps : stamps'[g] = stamps[g]
    BY <2>1 DEF Extend
  <2>5. /\ Stamp(f) \in Int /\ Stamp(f) <= edits
        /\ disk[f] = begun[f] => Stamp(f) = begun[f].version
    BY <2>1, <2>3 DEF Stamp, Missing, SessionInv, ClockInv, File
  <2>6. StampInv'
    BY <2>1, <2>2, <2>3, <2>4, <2>5 DEF SessionInv, StampInv, Past
  <2> QED
    BY <2>2, <2>6 DEF SessionInv, ClockInv, LoadInv, KeptInv, ServedInv, Past, Untouched
<1>4. CASE Trust
  <2>1. /\ at = "listed" /\ at' = "tool" /\ DOMAIN stamps = files
        /\ \E k \in kept : k.files = files /\ k.stamps = stamps
        /\ UNCHANGED <<disk, edits, tool, files, stamps, list, read, kept, solved, served, begun>>
    BY <1>4 DEF Trust, Stamped, Fresh
  <2>2. \A k \in kept : k.files = files /\ k.stamps = stamps
    BY <2>1 DEF SessionInv, KeptInv
  <2> QED
    BY <2>1, <2>2 DEF SessionInv, ClockInv, StampInv, LoadInv, KeptInv, ServedInv, Past,
       Untouched
<1>5. CASE LoadBegins
  <2>1. /\ at = "listed" /\ at' = "loading" /\ DOMAIN stamps = files
        /\ list' = There /\ read' = <<>>
        /\ UNCHANGED <<disk, edits, tool, files, stamps, kept, solved, served, begun>>
    BY <1>5 DEF LoadBegins, Stamped
  <2>2. LoadInv'
    <3>1. DOMAIN read' = {}
      BY <2>1
    <3>2. files \subseteq Files
      BY <2>1 DEF SessionInv, StampInv
    <3> QED
      BY <2>1, <3>1, <3>2 DEF LoadInv, Untouched, There
  <2> QED
    BY <2>1, <2>2 DEF SessionInv, ClockInv, StampInv, KeptInv, ServedInv, Past, Untouched
<1>6. CASE LoadNext
  <2>1. PICK f \in list \ DOMAIN read : read' = Extend(read, f, disk[f].version)
    BY <1>6 DEF LoadNext
  <2>2. /\ at = "loading" /\ at' = at
        /\ UNCHANGED <<disk, edits, tool, files, stamps, list, kept, solved, served, begun>>
    BY <1>6 DEF LoadNext
  <2>3. /\ DOMAIN read' = DOMAIN read \cup {f} /\ read'[f] = disk[f].version
        /\ \A g \in DOMAIN read : read'[g] = read[g]
    BY <2>1 DEF Extend
  <2>4. LoadInv'
    BY <2>2, <2>3 DEF SessionInv, LoadInv, Untouched
  <2> QED
    BY <2>2, <2>4 DEF SessionInv, ClockInv, StampInv, KeptInv, ServedInv, Past, Untouched
<1>7. CASE LoadFails
  BY <1>7 DEF LoadFails, SessionInv, ClockInv, StampInv, LoadInv, KeptInv, ServedInv, Past,
     Untouched
<1>8. CASE Insert
  <2>1. /\ at = "loading" /\ at' = "tool" /\ DOMAIN read = list /\ served = {}
        /\ kept' = {[files |-> files, stamps |-> stamps, net |-> read]} /\ solved' = {}
        /\ UNCHANGED <<disk, edits, tool, files, stamps, list, read, served, begun>>
    BY <1>8 DEF Insert, KeptStamps, SessionInv, ServedInv
  <2>2. /\ DOMAIN stamps = files /\ Past(stamps, files)
        /\ \A f \in files : Untouched(f, stamps) => f \in DOMAIN read /\ read[f] = stamps[f]
    BY <2>1 DEF SessionInv, LoadInv, StampInv
  <2>3. KeptInv' /\ ServedInv'
    BY <2>1, <2>2 DEF KeptInv, ServedInv, Past, Untouched
  <2> QED
    BY <2>1, <2>3 DEF SessionInv, ClockInv, StampInv, LoadInv, Past
<1>9. CASE PowerFlow
  <2>1. /\ at = "tool" /\ at' = "idle" /\ served = {}
        /\ UNCHANGED <<disk, edits, tool, files, stamps, list, read, kept, begun>>
        /\ \/ served' = {k.net : k \in kept} /\ solved' = served'
           \/ UNCHANGED <<served, solved>>
    BY <1>9 DEF PowerFlow, SessionInv, ServedInv
  <2> QED
    BY <2>1 DEF SessionInv, ClockInv, StampInv, LoadInv, KeptInv, ServedInv, Past, Untouched
<1>10. CASE Results
  <2>1. /\ at = "tool" /\ at' = "idle" /\ served' = solved
        /\ UNCHANGED <<disk, edits, tool, files, stamps, list, read, kept, solved, begun>>
    BY <1>10 DEF Results
  <2> QED
    BY <2>1 DEF SessionInv, ClockInv, StampInv, LoadInv, KeptInv, ServedInv, Past, Untouched
<1> QED
  BY <1>1, <1>2, <1>3, <1>4, <1>5, <1>6, <1>7, <1>8, <1>9, <1>10

LEMMA SessionInvNext == SessionInv /\ [SessionNext]_sessionvars => SessionInv'
<1> SUFFICES ASSUME SessionInv, [SessionNext]_sessionvars PROVE SessionInv'
  OBVIOUS
<1>1. CASE UNCHANGED sessionvars
  BY <1>1 DEF sessionvars, world, loading, session, answer, SessionInv, ClockInv, StampInv,
     LoadInv, KeptInv, ServedInv, Past, Untouched
<1>2. CASE SessionNext
  BY <1>2, EditKeepsInv, CallKeepsInv DEF SessionNext
<1> QED
  BY <1>1, <1>2

\* However many files there are and whenever they are edited, no call answers from
\* a network or a solution older than its files were when the call began.
THEOREM NetworksAreCurrent == SessionSpec => []AnswersAreCurrent
<1>1. SessionInv => AnswersAreCurrent
  <2> SUFFICES ASSUME SessionInv, NEW net \in served, NEW f \in Files, disk[f] = begun[f]
               PROVE  /\ begun[f].there => f \in DOMAIN net /\ net[f] = begun[f].version
                      /\ ~begun[f].there /\ Watched(f) => f \notin DOMAIN net
    BY DEF AnswersAreCurrent
  <2>1. PICK k \in kept : net = k.net
    BY DEF SessionInv, ServedInv
  <2>2. /\ k.files = files /\ k.stamps = stamps /\ DOMAIN stamps = files
        /\ files = {g \in Files : begun[g].there}
    BY DEF SessionInv, ServedInv, StampInv
  <2>3. CASE begun[f].there
    <3>1. f \in files /\ stamps[f] = begun[f].version
      BY <2>2, <2>3 DEF SessionInv, StampInv
    <3> QED
      BY <2>1, <2>2, <2>3, <3>1 DEF SessionInv, KeptInv, Untouched
  <2>4. CASE ~begun[f].there
    <3>1. \A l \in kept : f \notin l.files
      BY <2>2, <2>4 DEF SessionInv, ServedInv
    <3> QED
      BY <2>4, <3>1 DEF Watched
  <2> QED
    BY <2>3, <2>4
<1> QED
  BY <1>1, SessionInvInit, SessionInvNext, PTL DEF SessionSpec

-----------------------------------------------------------------------------
(* The continuation walk.                                                  *)


WalkTypes ==
  /\ fold \in [SUBSET Units -> Nat \ {0}] /\ saturation \in [Units -> Nat]
  /\ arclength \in Nat /\ clamped \in SUBSET Units
  /\ step \in Nat /\ attempts \in Nat

\* No machine is past its limit where the walk stands.
WithinLimits == Violated(arclength) = {}

WalkInv == WalkTypes /\ WithinLimits /\ NoseIsNoticed

LEMMA ClampType == ASSUME NEW s \in Nat PROVE Clamp(s) \in Nat
  BY ContinuationAssumption DEF Clamp

LEMMA WalkInvInit == WalkInit => WalkInv
<1> SUFFICES ASSUME WalkInit PROVE WalkInv
  OBVIOUS
<1>1. WalkTypes
  <2>1. FirstStep \in Nat
    BY ContinuationAssumption
  <2>2. step \in Nat
    BY <2>1, ClampType DEF WalkInit
  <2>3. fold \in [SUBSET Units -> Nat \ {0}] /\ saturation \in [Units -> Nat]
    BY ContinuationAssumption DEF WalkInit
  <2> QED
    BY <2>2, <2>3 DEF WalkInit, WalkTypes
<1>2. WithinLimits
  <2> SUFFICES ASSUME NEW u \in Units, saturation[u] <= 0 PROVE u \in clamped
    BY DEF WalkInit, WithinLimits, Violated
  <2>1. saturation[u] \in Nat
    BY <1>1 DEF WalkTypes
  <2>2. saturation[u] = 0
    BY <2>1
  <2> QED
    BY <2>2 DEF WalkInit
<1>3. Rising(clamped, arclength)
  <2>1. fold[clamped] \in Nat \ {0} /\ arclength = 0
    BY <1>1 DEF WalkTypes, WalkInit
  <2> QED
    BY <2>1 DEF Rising
<1> QED
  BY <1>1, <1>2, <1>3 DEF WalkInv, NoseIsNoticed

LEMMA LimitEventKeepsInv == ASSUME WalkInv, LimitEvent PROVE WalkInv'
<1>1. PICK far \in 1..step :
        /\ arclength' = arclength + far
        /\ clamped' = clamped \cup Violated(arclength + far)
  BY Zenon DEF LimitEvent, Travelled
<1>2. /\ WalkTypes /\ attempts' = attempts + 1 /\ walking
      /\ UNCHANGED <<fold, saturation>>
  BY DEF LimitEvent, Trying, curve, WalkInv
<1>3. step' \in Nat
  <2>1. step \in Nat /\ step \div 4 \in Nat
    BY <1>2 DEF WalkTypes
  <2>2. step' = step \/ step' = Clamp(step \div 4)
    BY DEF LimitEvent, NoTangent
  <2> QED
    BY <2>1, <2>2, ClampType
<1>4. WalkTypes'
  BY <1>1, <1>2, <1>3 DEF WalkTypes, Violated
<1>5. WithinLimits'
  BY <1>1, <1>2 DEF WithinLimits, Violated
<1>6. NoseIsNoticed'
  <2>1. ~walking' \/ Rising(clamped', arclength')
    BY DEF LimitEvent, NoTangent, TurnsDown, Ends
  <2> QED
    BY <1>2, <2>1 DEF Rising, NoseIsNoticed
<1> QED
  BY <1>4, <1>5, <1>6 DEF WalkInv

\* A step that is accepted passes no limit, and leaves the machines as they are.
LEMMA AcceptedStep ==
  ASSUME WalkInv, step' \in Nat, attempts' = attempts + 1,
         arclength' = arclength + step, Violated(arclength + step) = {},
         UNCHANGED <<fold, saturation, clamped>>
  PROVE  WalkTypes' /\ WithinLimits'
  BY DEF WalkInv, WalkTypes, WithinLimits, Violated

LEMMA AcceptKeepsInv ==
  ASSUME WalkInv, AcceptSingular \/ AcceptNose \/ AcceptOn \/ AcceptTarget
  PROVE  WalkInv'
<1>1. /\ walking /\ attempts' = attempts + 1 /\ arclength' = arclength + step
      /\ Violated(arclength + step) = {}
      /\ UNCHANGED <<fold, saturation, clamped>>
  BY DEF AcceptSingular, AcceptNose, AcceptOn, AcceptTarget, Accept, Trying, curve
<1>2. step' \in Nat
  <2>1. step \in Nat /\ step \div 2 \in Nat /\ 2 * step \in Nat
    BY DEF WalkInv, WalkTypes
  <2>2. step' \in {step, Clamp(step \div 2), Clamp(2 * step)}
    BY DEF AcceptSingular, NoTangent, AcceptNose, AcceptOn, Rescaled, AcceptTarget
  <2> QED
    BY <2>1, <2>2, ClampType
<1>3. WalkTypes' /\ WithinLimits'
  BY <1>1, <1>2, AcceptedStep
<1>4. CASE AcceptSingular \/ AcceptTarget
  BY <1>3, <1>4 DEF AcceptSingular, NoTangent, AcceptTarget, Ends, WalkInv, NoseIsNoticed
<1>5. CASE AcceptNose
  <2>1. critical' # {}
    BY <1>5 DEF AcceptNose
  <2>2. NoseIsNoticed'
    BY <2>1 DEF NoseIsNoticed
  <2> QED
    BY <1>3, <2>2 DEF WalkInv
<1>6. CASE AcceptOn
  <2>1. ~PassesNose /\ critical' = critical
    BY <1>6 DEF AcceptOn
  <2>2. Rising(clamped, arclength + step) \/ critical # {}
    BY <1>1, <2>1 DEF PassesNose, WalkInv, NoseIsNoticed
  <2>3. Rising(clamped', arclength') \/ critical' # {}
    BY <1>1, <2>1, <2>2 DEF Rising
  <2> QED
    BY <1>1, <1>3, <2>3 DEF WalkInv, NoseIsNoticed, Rising
<1> QED
  BY <1>4, <1>5, <1>6

LEMMA WalkInvNext == WalkInv /\ [WalkNext]_walkvars => WalkInv'
<1> SUFFICES ASSUME WalkInv, [WalkNext]_walkvars PROVE WalkInv'
  OBVIOUS
<1>1. CASE OutOfSteps
  BY <1>1 DEF OutOfSteps, curve, WalkInv, WalkTypes, WithinLimits, Violated, NoseIsNoticed
<1>2. CASE RejectStep
  <2>1. /\ walking /\ attempts' = attempts + 1 /\ step' = step \div 2
        /\ UNCHANGED <<fold, saturation, arclength, lambda, clamped, critical>>
    BY <1>2 DEF RejectStep, Trying, curve
  <2>2. step \div 2 \in Nat
    BY DEF WalkInv, WalkTypes
  <2> QED
    BY <2>1, <2>2 DEF WalkInv, WalkTypes, WithinLimits, Violated, NoseIsNoticed, Rising
<1>3. CASE UNCHANGED walkvars
  BY <1>3 DEF walkvars, curve, WalkInv, WalkTypes, WithinLimits, Violated, NoseIsNoticed,
     Rising
<1> QED
  BY <1>1, <1>2, <1>3, LimitEventKeepsInv, AcceptKeepsInv DEF WalkNext

\* On every curve, whatever steps are rejected and wherever the locators stop, the
\* walk never goes on beyond a nose, smooth or a machine's limit, that it has not
\* reported.
THEOREM NoNoseIsPassed == WalkSpec => []NoseIsNoticed
<1>1. WalkInv => NoseIsNoticed
  BY DEF WalkInv
<1> QED
  BY <1>1, WalkInvInit, WalkInvNext, PTL DEF WalkSpec

\* Where each machine was clamped lies behind the walk, and lambda is what the
\* ticks up to here add up to.
LocatedInv ==
  /\ clampedAt \in [Units -> Int]
  /\ \A u \in Units : u \notin clamped => clampedAt[u] = Free
  /\ \A u \in clamped : clampedAt[u] \in 0..arclength
  /\ ending = "target" => ~walking
  /\ ending # "target" => lambda = OnCurve(arclength)

\* Clamping machines where the walk arrives changes no tick on the way there: over
\* these the curve is that of the machines clamped before, and gains what Gain says.
LEMMA TicksAddUp ==
  ASSUME WalkTypes, LocatedInv, NEW d \in Nat, fold' = fold, arclength' = arclength + d,
         \A u \in Units : \/ clampedAt'[u] = clampedAt[u]
                          \/ u \notin clamped /\ clampedAt'[u] = arclength + d
  PROVE  OnCurve(arclength)' = OnCurve(arclength) + Gain(clamped, arclength, d)
<1> DEFINE f == fold[clamped]
           top == IF f <= arclength + d THEN f ELSE arclength + d
           more == (arclength + 1)..top
<1>1. f \in Nat /\ arclength \in Nat /\ top \in Nat
  BY DEF WalkTypes
<1>2. ASSUME NEW t \in 1..(arclength + d) PROVE ClampedBefore(t)' = ClampedBefore(t)
  <2>1. t \in Int /\ t <= arclength + d
    BY <1>1
  <2>2. ASSUME NEW u \in Units
        PROVE  clampedAt'[u] # Free /\ clampedAt'[u] < t
                 <=> clampedAt[u] # Free /\ clampedAt[u] < t
    <3>1. u \notin clamped => clampedAt[u] = Free
      BY DEF LocatedInv
    <3> QED
      BY <1>1, <2>1, <3>1
  <2> QED
    BY <2>2 DEF ClampedBefore
<1>3. ASSUME NEW t \in (arclength + 1)..(arclength + d) PROVE ClampedBefore(t) = clamped
  <2>1. t \in Int /\ arclength < t
    BY <1>1
  <2>2. ASSUME NEW u \in Units
        PROVE  clampedAt[u] # Free /\ clampedAt[u] < t <=> u \in clamped
    BY <1>1, <2>1 DEF LocatedInv, Free
  <2> QED
    BY <2>2 DEF ClampedBefore, WalkTypes
<1>4. UpTicks(arclength)' = {t \in 1..(arclength + d) : t <= fold[ClampedBefore(t)]}
  BY <1>2 DEF UpTicks
<1>5. UpTicks(arclength)' = UpTicks(arclength) \cup more
  <2>1. ASSUME NEW t \in 1..(arclength + d)
        PROVE  t <= fold[ClampedBefore(t)] <=> t \in UpTicks(arclength) \cup more
    <3>1. CASE t <= arclength
      BY <1>1, <3>1 DEF UpTicks
    <3>2. CASE ~(t <= arclength)
      <4>1. t \in (arclength + 1)..(arclength + d)
        BY <1>1, <3>2
      <4>2. ClampedBefore(t) = clamped
        BY <1>3, <4>1
      <4> QED
        BY <1>1, <3>2, <4>1, <4>2 DEF UpTicks
    <3> QED
      BY <3>1, <3>2
  <2>2. UpTicks(arclength) \cup more \subseteq 1..(arclength + d)
    BY <1>1 DEF UpTicks
  <2> QED
    BY <1>4, <2>1, <2>2
<1>6. /\ IsFiniteSet(UpTicks(arclength)) /\ Cardinality(UpTicks(arclength)) \in Nat
  <2>1. IsFiniteSet(1..arclength)
    BY <1>1, FS_Interval
  <2>2. UpTicks(arclength) \in SUBSET (1..arclength)
    BY DEF UpTicks
  <2>3. IsFiniteSet(UpTicks(arclength))
    BY <2>1, <2>2, FS_Subset
  <2> QED
    BY <2>3, FS_CardinalityType
<1>7. /\ IsFiniteSet(more) /\ Cardinality(more) \in Nat
      /\ Cardinality(more) = IF arclength + 1 > top THEN 0 ELSE top - arclength
  <2>1. arclength + 1 \in Int /\ top \in Int
    BY <1>1
  <2>2. /\ IsFiniteSet(more)
        /\ Cardinality(more)
             = IF arclength + 1 > top THEN 0 ELSE top - (arclength + 1) + 1
    BY <2>1, FS_Interval
  <2> HIDE DEF more, top
  <2>3. top - (arclength + 1) + 1 = top - arclength
    BY <1>1, <2>1
  <2> QED
    BY <2>2, <2>3, FS_CardinalityType
<1>8. UpTicks(arclength) \cap more = {}
  BY <1>1 DEF UpTicks
<1> HIDE DEF more
<1>9. Cardinality(UpTicks(arclength))' = Cardinality(UpTicks(arclength)) + Cardinality(more)
  <2>1. Cardinality(UpTicks(arclength) \cup more)
          = Cardinality(UpTicks(arclength)) + Cardinality(more) - Cardinality({})
    BY <1>6, <1>7, <1>8, FS_Union
  <2>2. Cardinality({}) = 0
    BY FS_EmptySet
  <2>3. Cardinality(UpTicks(arclength))' = Cardinality(UpTicks(arclength) \cup more)
    BY <1>5
  <2> QED
    BY <1>6, <1>7, <2>1, <2>2, <2>3
<1> DEFINE up == Cardinality(UpTicks(arclength))
<1>10. OnCurve(arclength) = up - (arclength - up)
       /\ OnCurve(arclength)' = up' - (arclength' - up')
  BY DEF OnCurve
<1>11. Gain(clamped, arclength, d) = Cardinality(more) - (d - Cardinality(more))
  <2>1. Cardinality(more) = IF f <= arclength THEN 0
                            ELSE IF f >= arclength + d THEN d ELSE f - arclength
    <3> HIDE DEF f
    <3>1. CASE f <= arclength
      BY <1>1, <1>7, <3>1
    <3>2. CASE ~(f <= arclength) /\ f >= arclength + d
      BY <1>1, <1>7, <3>2
    <3>3. CASE ~(f <= arclength) /\ ~(f >= arclength + d)
      BY <1>1, <1>7, <3>3
    <3> QED
      BY <3>1, <3>2, <3>3
  <2> QED
    BY <2>1, Zenon DEF Gain
<1>12. up \in Nat /\ Cardinality(more) \in Nat
  BY <1>6, <1>7
<1>13. up' = up + Cardinality(more)
  BY <1>9
<1> HIDE DEF up
<1> QED
  BY <1>1, <1>10, <1>11, <1>12, <1>13

LEMMA LocatedInvInit == WalkInit => LocatedInv
<1> SUFFICES ASSUME WalkInit PROVE LocatedInv
  OBVIOUS
<1>1. arclength = 0 /\ lambda = 0 /\ clamped \subseteq Units /\ ending = "max steps"
      /\ clampedAt = [u \in Units |-> IF u \in clamped THEN 0 ELSE Free]
  BY DEF WalkInit
<1>2. UpTicks(0) = {}
  BY DEF UpTicks
<1>3. OnCurve(0) = 0
  <2>1. Cardinality(UpTicks(0)) = 0
    BY <1>2, FS_EmptySet
  <2> QED
    BY <2>1 DEF OnCurve
<1>4. lambda = OnCurve(arclength) /\ ending # "target"
  BY <1>1, <1>3
<1>5. 0 \in Int /\ Free \in Int /\ 0 \in 0..0
  BY DEF Free
<1>6. \A u \in Units : clampedAt[u] = IF u \in clamped THEN 0 ELSE Free
  BY <1>1, Zenon
<1>7. clampedAt \in [Units -> Int]
  <2> SUFFICES \A u \in Units : (IF u \in clamped THEN 0 ELSE Free) \in Int
    BY <1>1, Zenon
  <2> QED
    BY <1>5, Zenon
<1>8. /\ \A u \in Units : u \notin clamped => clampedAt[u] = Free
      /\ \A u \in clamped : clampedAt[u] \in 0..arclength
  <2>1. \A u \in Units : u \notin clamped => clampedAt[u] = Free
    BY <1>6, Zenon
  <2>2. \A u \in clamped : clampedAt[u] = 0
    BY <1>1, <1>6, Zenon
  <2> QED
    BY <1>1, <1>5, <2>1, <2>2
<1> QED
  BY <1>4, <1>7, <1>8 DEF LocatedInv

LEMMA LimitEventKeepsLocated == ASSUME WalkInv, LocatedInv, LimitEvent PROVE LocatedInv'
<1>1. PICK d \in 1..step :
        /\ lambda' = lambda + Gain(clamped, arclength, d)
        /\ arclength' = arclength + d
        /\ clamped' = clamped \cup Violated(arclength + d)
        /\ clampedAt' = [u \in Units |-> IF u \in clamped' \ clamped
                                           THEN arclength + d ELSE clampedAt[u]]
  BY Zenon DEF LimitEvent, Travelled
<1>2. /\ WalkTypes /\ walking /\ fold' = fold /\ d \in Nat /\ ending # "target"
  BY DEF LimitEvent, Trying, curve, WalkInv, WalkTypes, LocatedInv
<1>3. ending' # "target"
  BY <1>2 DEF LimitEvent, NoTangent, Ends, GoesOn
<1>4. OnCurve(arclength)' = OnCurve(arclength) + Gain(clamped, arclength, d)
  BY <1>1, <1>2, TicksAddUp
<1>5. lambda' = OnCurve(arclength)'
  BY <1>1, <1>2, <1>4 DEF LocatedInv
<1>6. arclength \in Nat /\ clamped' \subseteq Units
  BY <1>1 DEF WalkInv, WalkTypes, Violated
<1>7. /\ clampedAt' \in [Units -> Int]
      /\ \A u \in Units : u \notin clamped' => clampedAt'[u] = Free
      /\ \A u \in clamped' : clampedAt'[u] \in 0..arclength'
  BY <1>1, <1>2, <1>6 DEF LocatedInv
<1> QED
  BY <1>3, <1>5, <1>7 DEF LocatedInv

LEMMA AcceptKeepsLocated ==
  ASSUME WalkInv, LocatedInv, AcceptSingular \/ AcceptNose \/ AcceptOn \/ AcceptTarget
  PROVE  LocatedInv'
<1>1. /\ walking /\ arclength' = arclength + step
      /\ UNCHANGED <<fold, clamped, clampedAt>>
  BY DEF AcceptSingular, AcceptNose, AcceptOn, AcceptTarget, Accept, Trying, curve
<1>2. /\ WalkTypes /\ step \in Nat /\ arclength \in Nat /\ ending # "target"
      /\ lambda = OnCurve(arclength)
  BY <1>1 DEF WalkInv, WalkTypes, LocatedInv
<1>3. OnCurve(arclength)' = OnCurve(arclength) + Gain(clamped, arclength, step)
  BY <1>1, <1>2, TicksAddUp
<1>4. /\ clampedAt' \in [Units -> Int]
      /\ \A u \in Units : u \notin clamped' => clampedAt'[u] = Free
      /\ \A u \in clamped' : clampedAt'[u] \in 0..arclength'
  BY <1>1, <1>2 DEF LocatedInv
<1>6. CASE AcceptTarget
  <2>1. ending' = "target" /\ ~walking'
    BY <1>6 DEF AcceptTarget, Ends
  <2> QED
    BY <1>4, <2>1 DEF LocatedInv
<1>7. CASE AcceptSingular \/ AcceptNose \/ AcceptOn
  <2>1. lambda' = lambda + Gain(clamped, arclength, step) /\ ending' # "target"
    BY <1>2, <1>7 DEF AcceptSingular, AcceptNose, AcceptOn, Accept, NoTangent, Ends, GoesOn
  <2> QED
    BY <1>2, <1>3, <1>4, <2>1 DEF LocatedInv
<1> QED
  BY <1>6, <1>7

LEMMA LocatedInvNext == WalkInv /\ LocatedInv /\ [WalkNext]_walkvars => LocatedInv'
<1> SUFFICES ASSUME WalkInv, LocatedInv, [WalkNext]_walkvars PROVE LocatedInv'
  OBVIOUS
<1>1. CASE OutOfSteps \/ RejectStep \/ UNCHANGED walkvars
  <2>1. /\ UNCHANGED <<fold, arclength, lambda, clamped, clampedAt>>
        /\ \/ UNCHANGED <<walking, ending>>
           \/ ending' \in {ending, "step floor"} /\ ending # "target"
    <3>1. CASE UNCHANGED walkvars
      BY <3>1 DEF walkvars, curve
    <3>2. CASE OutOfSteps \/ RejectStep
      <4>1. /\ walking /\ ending' \in {ending, "step floor"}
            /\ UNCHANGED <<fold, arclength, lambda, clamped, clampedAt>>
        BY <3>2 DEF OutOfSteps, RejectStep, Trying, curve
      <4> QED
        BY <4>1 DEF LocatedInv
    <3> QED
      BY <1>1, <3>1, <3>2
  <2>2. OnCurve(arclength)' = OnCurve(arclength)
    BY <2>1 DEF OnCurve, UpTicks, ClampedBefore
  <2>3. ending' = "target" => ~walking'
    BY <2>1, Zenon DEF LocatedInv
  <2>4. ending' # "target" => lambda' = OnCurve(arclength)'
    BY <2>1, <2>2 DEF LocatedInv
  <2> QED
    BY <2>1, <2>3, <2>4 DEF LocatedInv
<1> QED
  BY <1>1, LimitEventKeepsLocated, AcceptKeepsLocated DEF WalkNext

\* Whatever was rejected, halved, located and switched on the way, the walk stands
\* on the point of the curve its arclength names, and there no machine is past its
\* limit and still holding its voltage.
THEOREM TheWalkStaysOnTheCurve == WalkSpec => []StandsOnTheCurve
<1>1. WalkInv /\ LocatedInv => StandsOnTheCurve
  BY DEF WalkInv, WithinLimits, LocatedInv, StandsOnTheCurve
<1> QED
  BY <1>1, WalkInvInit, WalkInvNext, LocatedInvInit, LocatedInvNext, PTL DEF WalkSpec

-----------------------------------------------------------------------------
(* The persistent system's calls.                                          *)

Marks == {"zero", "now", "left"}

RefactorTypes ==
  /\ stage \in {"idle", "scatter", "eliminate", "solve", "factor", "resolve"}
  /\ call \in Nat /\ pivots \in Numerics
  /\ made = [b \in Blocks |-> made[b]]
  /\ \A b \in Blocks : made[b] = [k \in Cols(b) |-> made[b][k]]
  /\ x \in [Workspace -> Marks]
  /\ targets \in {Nothing, RowsNow(pivots)}

Running == stage \in {"scatter", "eliminate"}

\* What the columns before this one hold, and that the targets are in order.
PassInv ==
  Running =>
    /\ block \in Blocks /\ col \in Cols(block)
    /\ targets = RowsNow(pivots)
    /\ \A b \in Blocks : b < block => \A k \in Cols(b) : made[b][k] = call
    /\ \A k \in Cols(block) : k < col => made[block][k] = call

\* What the workspace holds where columns of this block have been.
Passed(r) == \E k \in 1..(col - 1) : r \in Filled(Factor, k)
BeforeColumn ==
  stage = "scatter" => \A r \in Workspace : Passed(r) => x[r] = "zero"
InColumn ==
  stage = "eliminate" =>
    /\ clean /\ next \in Nat \ {0}
    /\ \A r \in Filled(Factor, col) : x[r] # "left"
    /\ \A r \in Workspace : Passed(r) /\ r \notin Filled(Factor, col) => x[r] = "zero"
    /\ \A n \in DOMAIN UColumn : n < next => x[UColumn[n]] = "zero"

SolvedInv ==
  stage \in {"solve", "resolve"} =>
    made = MadeBy(call) /\ offs = call /\ scaled = ScaledBy(call, pivots)

RefactorInv ==
  /\ RefactorTypes /\ PassInv /\ BeforeColumn /\ InColumn /\ SolvedInv
  /\ AnswersAreOfTheirCall

USE DEF Marks

-----------------------------------------------------------------------------
(* What a factor's pattern gives.                                          *)

LEMMA FactorOf ==
  ASSUME NEW num \in Numerics, NEW b \in Blocks
  PROVE  IsFactor(num[b], Matrices[b], Sizes[b]) /\ Sizes[b] \in Nat \ {0}
  BY FactoringAssumption DEF Numerics

LEMMA ColumnOf ==
  ASSUME NEW num \in Numerics, NEW b \in Blocks, NEW k \in Cols(b)
  PROVE  LET f == num[b] IN
         /\ DOMAIN f.row = Cols(b) /\ f.above[k] \in Seq(Cols(b)) /\ f.below[k] \subseteq Cols(b)
         /\ InU(f, k) \subseteq 1..(k - 1) /\ f.below[k] \subseteq (k + 1)..Sizes[b]
         /\ Filled(f, k) \subseteq Cols(b)
         /\ Entries(f, k, Matrices[b]) \subseteq Filled(f, k)
         /\ \A j \in InU(f, k) : f.below[j] \subseteq Filled(f, k)
         /\ \A r \in Filled(f, k) \ Entries(f, k, Matrices[b]) :
              \E j \in InU(f, k) : r \in f.below[j]
         /\ \A m, n \in DOMAIN f.above[k] : m < n => /\ f.above[k][m] # f.above[k][n]
                                                    /\ f.above[k][m] \notin f.below[f.above[k][n]]
<1> DEFINE f == num[b]
<1>1. IsFactor(f, Matrices[b], Sizes[b]) /\ Sizes[b] \in Nat \ {0}
  BY FactorOf
<1>2. k \in 1..Sizes[b] /\ k \in Nat
  BY <1>1 DEF Cols
<1>3. f.row \in [Cols(b) -> Cols(b)] /\ f.above \in [Cols(b) -> Seq(Cols(b))]
      /\ f.below \in [Cols(b) -> SUBSET Cols(b)]
  BY <1>1 DEF IsFactor, Cols
<1>4. /\ InU(f, k) \subseteq 1..(k - 1) /\ f.below[k] \subseteq (k + 1)..Sizes[b]
      /\ Entries(f, k, Matrices[b]) \subseteq Filled(f, k)
      /\ \A j \in InU(f, k) : f.below[j] \subseteq Filled(f, k)
      /\ \A r \in Filled(f, k) \ Entries(f, k, Matrices[b]) :
           \E j \in InU(f, k) : r \in f.below[j]
      /\ \A m, n \in DOMAIN f.above[k] : m < n => /\ f.above[k][m] # f.above[k][n]
                                                 /\ f.above[k][m] \notin f.below[f.above[k][n]]
  BY <1>1, <1>2 DEF IsFactor
<1>5. 1..(k - 1) \subseteq Cols(b)
  BY <1>1, <1>2 DEF Cols
<1>6. Filled(f, k) \subseteq Cols(b)
  BY <1>3, <1>4, <1>5 DEF Filled
<1> QED
  BY <1>3, <1>4, <1>6

\* A place of this column that earlier columns left alone is scattered onto.
LEMMA FirstTouchIsScattered ==
  ASSUME NEW num \in Numerics, NEW b \in Blocks, NEW k \in Cols(b),
         NEW r \in Filled(num[b], k), r \notin Entries(num[b], k, Matrices[b])
  PROVE  \E j \in 1..(k - 1) : r \in Filled(num[b], j)
<1>1. PICK j \in InU(num[b], k) : r \in num[b].below[j]
  BY ColumnOf
<1>2. j \in 1..(k - 1)
  BY <1>1, ColumnOf
<1> QED
  BY <1>1, <1>2 DEF Filled

-----------------------------------------------------------------------------
(* The steps.                                                              *)

LEMMA RefactorInvInit == RefactorInit => RefactorInv
<1> SUFFICES ASSUME RefactorInit PROVE RefactorInv
  OBVIOUS
<1>1. RefactorTypes
  BY DEF RefactorInit, RefactorTypes, MadeBy
<1> QED
  BY <1>1 DEF RefactorInit, RefactorInv, PassInv, Running, BeforeColumn, InColumn, SolvedInv,
              AnswersAreOfTheirCall

LEMMA SolvingKeepsInv == ASSUME RefactorInv, Call PROVE RefactorInv'
<1> USE DEF RefactorInv
<1>1. /\ stage' = "scatter" /\ call' = call + 1 /\ block' = 1 /\ col' = 1
      /\ targets' = RowsNow(pivots) /\ solution' = Nothing
      /\ UNCHANGED <<pivots, made, x>>
  BY DEF Call, RefactorTypes
<1>2. RefactorTypes'
  BY <1>1 DEF RefactorTypes, RowsNow
<1>3. 1 \in Blocks /\ 1 \in Cols(1)
  BY FactoringAssumption DEF Blocks, Cols
<1>4. PassInv'
  BY <1>1, <1>3 DEF PassInv, Blocks, Cols, RowsNow
<1>5. BeforeColumn'
  BY <1>1 DEF BeforeColumn, Passed
<1> QED
  BY <1>1, <1>2, <1>4, <1>5 DEF InColumn, SolvedInv, AnswersAreOfTheirCall

LEMMA ScatterKeepsInv == ASSUME RefactorInv, Scatter PROVE RefactorInv'
<1> USE DEF RefactorInv
<1> DEFINE entries == Entries(Factor, col, Matrices[block])
<1>1. /\ stage = "scatter" /\ stage' = "eliminate" /\ next' = 1
      /\ x' = [r \in Workspace |-> Scattered(r, entries)]
      /\ clean' = (targets = RowsNow(pivots))
      /\ UNCHANGED <<call, pivots, made, offs, targets, scaled, block, col, solution>>
  BY DEF Scatter
<1>2. block \in Blocks /\ col \in Cols(block) /\ pivots \in Numerics /\ clean'
  BY <1>1 DEF PassInv, Running, RefactorTypes
<1>3. RefactorTypes'
  BY <1>1 DEF RefactorTypes, RowsNow, Scattered
<1>4. PassInv'
  BY <1>1 DEF PassInv, Running, RowsNow
<1>5. Filled(Factor, col) \subseteq Workspace /\ entries \subseteq Filled(Factor, col)
  BY <1>2, ColumnOf DEF Factor, Workspace
<1>6. ASSUME NEW r \in Filled(Factor, col) PROVE x'[r] # "left"
  <2>1. CASE r \in entries
    BY <1>1, <1>5, <2>1 DEF Scattered
  <2>2. CASE r \notin entries
    <3>1. Passed(r)
      BY <1>2, <2>2, FirstTouchIsScattered DEF Passed, Factor
    <3>2. x[r] = "zero"
      BY <1>1, <1>5, <3>1 DEF BeforeColumn
    <3> QED
      BY <1>1, <1>5, <3>2 DEF Scattered
  <2> QED
    BY <2>1, <2>2
<1>7. ASSUME NEW r \in Workspace, Passed(r), r \notin Filled(Factor, col) PROVE x'[r] = "zero"
  BY <1>1, <1>5, <1>7 DEF BeforeColumn, Scattered
<1>8. InColumn'
  <2>1. Factor' = Factor /\ UColumn' = UColumn
    BY <1>1 DEF Factor, UColumn
  <2>2. DOMAIN UColumn \subseteq Nat \ {0}
    BY <1>2, ColumnOf DEF UColumn, Factor
  <2>3. \A r : Passed(r)' <=> Passed(r)
    BY <1>1, <2>1 DEF Passed
  <2> QED
    BY <1>1, <1>2, <1>6, <1>7, <2>1, <2>2, <2>3 DEF InColumn
<1> QED
  BY <1>1, <1>3, <1>4, <1>8 DEF BeforeColumn, SolvedInv, AnswersAreOfTheirCall

LEMMA EliminateKeepsInv == ASSUME RefactorInv, Eliminate PROVE RefactorInv'
<1> USE DEF RefactorInv
<1> DEFINE j == UColumn[next]
<1>1. /\ stage = "eliminate" /\ next \in DOMAIN UColumn /\ next' = next + 1
      /\ x' = [r \in Workspace |-> IF r = j THEN "zero"
                                   ELSE IF r \in Factor.below[j] /\ x[r] = "zero" THEN "now"
                                   ELSE x[r]]
      /\ clean' = (clean /\ x[j] # "left" /\ made[block][j] = call)
      /\ UNCHANGED <<stage, call, pivots, made, offs, targets, scaled, block, col, solution>>
  BY DEF Eliminate
<1>2. block \in Blocks /\ col \in Cols(block) /\ pivots \in Numerics /\ x \in [Workspace -> Marks]
  BY <1>1 DEF PassInv, Running, RefactorTypes
<1>3. RefactorTypes'
  BY <1>1 DEF RefactorTypes, RowsNow
<1>4. PassInv'
  BY <1>1 DEF PassInv, Running, RowsNow
<1>5. j \in InU(Factor, col) /\ j \in Filled(Factor, col) /\ Filled(Factor, col) \subseteq Workspace
  <2>1. j \in InU(Factor, col)
    BY <1>1 DEF UColumn, InU
  <2>2. j \in Filled(Factor, col)
    BY <2>1 DEF Filled
  <2>3. Filled(Factor, col) \subseteq Cols(block)
    BY <1>2, ColumnOf DEF Factor
  <2> QED
    BY <1>2, <2>1, <2>2, <2>3 DEF Workspace
<1>6. Factor.below[j] \subseteq Filled(Factor, col)
  BY <1>2, <1>5, ColumnOf DEF Factor
<1>7. j \in Cols(block) /\ j < col
  <2>1. j \in 1..(col - 1) /\ Sizes[block] \in Nat /\ col \in 1..Sizes[block]
    BY <1>2, <1>5, ColumnOf, FactorOf DEF Factor, Cols
  <2> QED
    BY <2>1 DEF Cols
<1>8. clean'
  BY <1>1, <1>5, <1>7 DEF InColumn, PassInv, Running
<1>9. InColumn'
  <2>1. Factor' = Factor /\ UColumn' = UColumn
    BY <1>1 DEF Factor, UColumn
  <2>2. next' \in Nat \ {0}
    BY <1>1 DEF InColumn
  <2>3. \A r \in Filled(Factor, col) : x'[r] # "left"
    BY <1>1, <1>2, <1>5 DEF InColumn
  <2>4. ASSUME NEW r \in Workspace, Passed(r), r \notin Filled(Factor, col) PROVE x'[r] = "zero"
    BY <1>1, <1>5, <1>6, <2>4 DEF InColumn
  <2>5. ASSUME NEW n \in DOMAIN UColumn, n < next' PROVE x'[UColumn[n]] = "zero"
    <3>1. UColumn[n] \in Workspace
      BY <1>2, <1>5, ColumnOf DEF UColumn, Factor, InU, Filled, Workspace
    <3>2. n \in Nat /\ next \in Nat
      <4>1. UColumn \in Seq(Cols(block))
        BY <1>2, ColumnOf DEF UColumn, Factor
      <4>2. DOMAIN UColumn = 1..Len(UColumn)
        BY <4>1
      <4> QED
        BY <1>1, <4>2
    <3>3. CASE n = next
      BY <1>1, <3>1, <3>3
    <3>4. CASE n < next
      <4>1. x[UColumn[n]] = "zero"
        BY <1>1, <3>4 DEF InColumn
      <4>2. UColumn[n] \notin Factor.below[j]
        BY <1>1, <1>2, <3>4, ColumnOf DEF UColumn, Factor
      <4> QED
        BY <1>1, <3>1, <4>1, <4>2
    <3> QED
      BY <1>1, <2>5, <3>2, <3>3, <3>4
  <2>6. \A r : Passed(r)' <=> Passed(r)
    BY <1>1, <2>1 DEF Passed
  <2> QED
    BY <1>1, <1>8, <2>1, <2>2, <2>3, <2>4, <2>5, <2>6 DEF InColumn
<1> QED
  BY <1>1, <1>3, <1>4, <1>9 DEF BeforeColumn, SolvedInv, AnswersAreOfTheirCall

\* At the pivot the whole column of U has been used and cleared.
LEMMA ColumnIsCleared ==
  ASSUME RefactorInv, AtPivot
  PROVE  /\ block \in Blocks /\ col \in Cols(block) /\ pivots \in Numerics
         /\ {col} \cup Factor.below[col] \subseteq Filled(Factor, col)
         /\ Filled(Factor, col) \subseteq Workspace
         /\ \A r \in InU(Factor, col) : x[r] = "zero"
<1> USE DEF RefactorInv
<1>1. stage = "eliminate" /\ next \notin DOMAIN UColumn
  BY DEF AtPivot
<1>2. block \in Blocks /\ col \in Cols(block) /\ pivots \in Numerics
  BY <1>1 DEF PassInv, Running, RefactorTypes
<1>3. UColumn \in Seq(Cols(block)) /\ Filled(Factor, col) \subseteq Cols(block)
  BY <1>2, ColumnOf DEF UColumn, Factor
<1>4. next \in Nat \ {0} /\ DOMAIN UColumn = 1..Len(UColumn) /\ Len(UColumn) \in Nat
  BY <1>1, <1>3 DEF InColumn
<1>5. \A n \in DOMAIN UColumn : n < next
  BY <1>1, <1>4
<1>6. \A r \in InU(Factor, col) : x[r] = "zero"
  BY <1>1, <1>5 DEF InColumn, InU, UColumn
<1> QED
  BY <1>2, <1>3, <1>6 DEF Filled, Workspace

LEMMA GatherKeepsInv == ASSUME RefactorInv, Gather PROVE RefactorInv'
<1> USE DEF RefactorInv
<1> DEFINE gathered == {col} \cup Factor.below[col]
<1>1. /\ stage = "eliminate"
      /\ x' = [r \in Workspace |-> IF r \in gathered THEN "zero" ELSE x[r]]
      /\ UNCHANGED <<call, pivots, targets, solution>>
  BY DEF Gather, AtPivot
<1>2. /\ block \in Blocks /\ col \in Cols(block) /\ pivots \in Numerics
      /\ gathered \subseteq Filled(Factor, col) /\ Filled(Factor, col) \subseteq Workspace
      /\ \A r \in InU(Factor, col) : x[r] = "zero"
  BY ColumnIsCleared DEF Gather
<1>3. made' = [made EXCEPT ![block][col] = call]
  <2>1. clean /\ \A r \in gathered : x[r] # "left"
    BY <1>1, <1>2 DEF InColumn
  <2> QED
    BY <2>1 DEF Gather
<1>4. /\ \A b \in Blocks : \A k \in Cols(b) :
           made'[b][k] = IF b = block /\ k = col THEN call ELSE made[b][k]
      /\ made' = [b \in Blocks |-> made'[b]]
      /\ \A b \in Blocks : made'[b] = [k \in Cols(b) |-> made'[b][k]]
  BY <1>2, <1>3 DEF RefactorTypes
<1>5. stage' \in {"scatter", "solve"}
  BY DEF Gather
<1>6. RefactorTypes'
  BY <1>1, <1>4, <1>5 DEF RefactorTypes, RowsNow
<1>7. block \in Nat /\ NBlocks \in Nat /\ block <= NBlocks /\ Sizes[block] \in Nat \ {0}
      /\ col \in Nat /\ col <= Sizes[block]
  BY <1>2, FactoringAssumption, FactorOf DEF Blocks, Cols
<1>8. targets = RowsNow(pivots)
      /\ (\A b \in Blocks : b < block => \A k \in Cols(b) : made[b][k] = call)
      /\ (\A k \in Cols(block) : k < col => made[block][k] = call)
  BY <1>1 DEF PassInv, Running
<1>9. CASE col < Sizes[block]
  <2>1. col' = col + 1 /\ block' = block /\ stage' = "scatter"
    BY <1>9 DEF Gather
  <2>2. PassInv'
    <3>1. col + 1 \in Cols(block)
      BY <1>7, <1>9 DEF Cols
    <3>2. \A b \in Blocks : b < block => \A k \in Cols(b) : made'[b][k] = call
      BY <1>4, <1>7, <1>8
    <3>3. \A k \in Cols(block) : k < col + 1 => made'[block][k] = call
      BY <1>2, <1>4, <1>7, <1>8 DEF Cols
    <3> QED
      BY <1>1, <1>2, <1>8, <2>1, <3>1, <3>2, <3>3 DEF PassInv, RowsNow
  <2>3. BeforeColumn'
    <3>1. SUFFICES ASSUME NEW r \in Workspace, NEW k \in 1..col, r \in Filled(Factor, k)
                   PROVE  x'[r] = "zero"
      BY <1>1, <1>7, <2>1 DEF BeforeColumn, Passed, Factor
    <3>2. CASE r \in Filled(Factor, col)
      BY <1>1, <1>2, <3>2 DEF Filled
    <3>3. CASE r \notin Filled(Factor, col)
      <4>1. k \in 1..(col - 1)
        BY <1>7, <3>1, <3>3
      <4>2. x[r] = "zero"
        BY <1>1, <3>1, <3>3, <4>1 DEF InColumn, Passed
      <4> QED
        BY <1>1, <4>2
    <3> QED
      BY <3>2, <3>3
  <2> QED
    BY <1>1, <1>6, <2>1, <2>2, <2>3 DEF InColumn, SolvedInv, AnswersAreOfTheirCall
<1>10. CASE col >= Sizes[block]
  <2>1. \A b \in Blocks : b <= block => \A k \in Cols(b) : made'[b][k] = call
    <3>1. \A k \in Cols(block) : made'[block][k] = call
      BY <1>2, <1>4, <1>7, <1>8, <1>10 DEF Cols
    <3>2. \A b \in Blocks : b < block => \A k \in Cols(b) : made'[b][k] = call
      BY <1>4, <1>7, <1>8
    <3> QED
      BY <1>7, <3>1, <3>2 DEF Blocks
  <2>2. CASE block < NBlocks
    <3>1. col' = 1 /\ block' = block + 1 /\ stage' = "scatter"
      BY <1>7, <1>10, <2>2 DEF Gather
    <3>2. block' \in Blocks /\ 1 \in Cols(block')
      BY <1>7, <2>2, <3>1, FactoringAssumption DEF Blocks, Cols
    <3>3. \A b \in Blocks : b < block' => b <= block
      BY <1>7, <3>1 DEF Blocks
    <3>4. PassInv'
      BY <1>1, <1>8, <2>1, <3>1, <3>2, <3>3 DEF PassInv, RowsNow, Cols
    <3>5. BeforeColumn'
      BY <3>1 DEF BeforeColumn, Passed
    <3> QED
      BY <1>1, <1>6, <3>1, <3>4, <3>5 DEF InColumn, SolvedInv, AnswersAreOfTheirCall
  <2>3. CASE block >= NBlocks
    <3>1. stage' = "solve" /\ offs' = call /\ scaled' = ScaledBy(call, pivots)
      BY <1>7, <1>10, <2>3 DEF Gather
    <3>2. \A b \in Blocks : \A k \in Cols(b) : made'[b][k] = call
      BY <1>7, <2>1, <2>3 DEF Blocks
    <3>3. made' = MadeBy(call)
      BY <1>4, <3>2 DEF MadeBy
    <3> QED
      BY <1>1, <1>6, <3>1, <3>3
      DEF PassInv, Running, BeforeColumn, InColumn, SolvedInv, AnswersAreOfTheirCall, MadeBy,
          ScaledBy, RowsNow
  <2> QED
    BY <1>7, <2>2, <2>3
<1> QED
  BY <1>7, <1>9, <1>10

LEMMA ZeroPivotKeepsInv == ASSUME RefactorInv, ZeroPivot PROVE RefactorInv'
<1> USE DEF RefactorInv
<1>1. /\ stage' = "factor" /\ x' = [x EXCEPT ![col] = "zero"]
      /\ made' = [made EXCEPT ![block][col] = 0]
      /\ UNCHANGED <<call, pivots, targets, solution>>
  BY DEF ZeroPivot
<1>2. block \in Blocks /\ col \in Cols(block)
  BY ColumnIsCleared DEF ZeroPivot
<1>3. RefactorTypes'
  BY <1>1, <1>2 DEF RefactorTypes, RowsNow
<1> QED
  BY <1>1, <1>3 DEF PassInv, Running, BeforeColumn, InColumn, SolvedInv, AnswersAreOfTheirCall

LEMMA FactorAfreshKeepsInv == ASSUME RefactorInv, FactorAfresh PROVE RefactorInv'
<1> USE DEF RefactorInv
<1>1. /\ stage' = "resolve" /\ pivots' \in Numerics /\ made' = MadeBy(call) /\ offs' = call
      /\ targets' = Nothing /\ scaled' = ScaledBy(call, pivots') /\ UNCHANGED <<call, x, solution>>
  BY DEF FactorAfresh, TargetsAfter
<1>2. RefactorTypes'
  BY <1>1 DEF RefactorTypes, MadeBy
<1> QED
  BY <1>1, <1>2 DEF PassInv, Running, BeforeColumn, InColumn, SolvedInv, AnswersAreOfTheirCall,
                    MadeBy, ScaledBy, RowsNow

\* The ends of a call: what is returned is what SolvedInv says stands.
LEMMA EndKeepsInv == ASSUME RefactorInv, Answer \/ NotFinite \/ GiveUp PROVE RefactorInv'
<1> USE DEF RefactorInv
<1>1. /\ stage' \in {"idle", "factor"}
      /\ UNCHANGED <<call, pivots, made, offs, targets, scaled, x>>
  BY DEF Answer, NotFinite, GiveUp
<1>2. RefactorTypes'
  BY <1>1 DEF RefactorTypes, RowsNow
<1>3. AnswersAreOfTheirCall'
  <2>1. CASE Answer
    BY <2>1, <1>1 DEF Answer, SolvedInv, AnswersAreOfTheirCall, MadeBy, ScaledBy
  <2>2. CASE NotFinite \/ GiveUp
    BY <2>2 DEF NotFinite, GiveUp, AnswersAreOfTheirCall, MadeBy
  <2> QED
    BY <2>1, <2>2
<1> QED
  BY <1>1, <1>2, <1>3 DEF PassInv, Running, BeforeColumn, InColumn, SolvedInv

LEMMA RefactorInvNext == RefactorInv /\ [RefactorNext]_refactorvars => RefactorInv'
<1> SUFFICES ASSUME RefactorInv, [RefactorNext]_refactorvars PROVE RefactorInv'
  OBVIOUS
<1>1. CASE RefactorNext
  BY <1>1, SolvingKeepsInv, ScatterKeepsInv, EliminateKeepsInv, GatherKeepsInv, ZeroPivotKeepsInv,
     FactorAfreshKeepsInv, EndKeepsInv DEF RefactorNext
<1>2. CASE UNCHANGED refactorvars
  <2> USE DEF RefactorInv
  <2>1. UNCHANGED <<stage, call, pivots, made, offs, targets, scaled, x, block, col, next, clean,
                    solution>>
    BY <1>2 DEF refactorvars
  <2>2. RefactorTypes' /\ PassInv'
    BY <2>1 DEF RefactorTypes, PassInv, Running, RowsNow
  <2>3. Factor' = Factor /\ UColumn' = UColumn /\ \A r : Passed(r)' <=> Passed(r)
    BY <2>1 DEF Factor, UColumn, Passed
  <2>4. BeforeColumn' /\ InColumn'
    BY <2>1, <2>3 DEF BeforeColumn, InColumn
  <2>5. SolvedInv' /\ AnswersAreOfTheirCall'
    BY <2>1 DEF SolvedInv, AnswersAreOfTheirCall, MadeBy, ScaledBy, RowsNow
  <2> QED
    BY <2>2, <2>4, <2>5
<1> QED
  BY <1>1, <1>2

\* Whatever an earlier call left in the workspace, the targets or the arrays, the
\* solution of a call to solve_packed is computed from its own values, in the
\* order of the pivots it used.
THEOREM AnswersOfTheirCall == RefactorSpec => []AnswersAreOfTheirCall
<1>1. RefactorInv => AnswersAreOfTheirCall
  BY DEF RefactorInv
<1> QED
  BY <1>1, RefactorInvInit, RefactorInvNext, PTL DEF RefactorSpec

-----------------------------------------------------------------------------
(* Sums over finite sets.                                                  *)

\* A set of numbers that holds zero, and with each number the next, holds all.
LEMMA Induct ==
  ASSUME NEW T \in SUBSET Nat, 0 \in T, \A n \in T : n + 1 \in T
  PROVE  T = Nat
<1> SUFFICES ASSUME Nat \ T # {} PROVE FALSE
  OBVIOUS
<1>1. PICK m \in Nat \ T : \A k \in Nat \ T : <<k, m>> \notin OpToRel(<, Nat)
  BY NatLessThanWellFounded, WFMin
<1>2. m # 0
  OBVIOUS
<1> DEFINE k == m - 1
<1>3. k \in Nat /\ k < m /\ k + 1 = m
  BY <1>2
<1>4. <<k, m>> \in OpToRel(<, Nat)
  BY <1>3 DEF OpToRel
<1> HIDE DEF k
<1>5. k \in T
  BY <1>1, <1>3, <1>4
<1> QED
  BY <1>3, <1>5

\* What a sum is computed by, over the subsets of at most n elements.
Adds(h, g, dom) ==
  h = [s \in dom |-> IF s = {} THEN 0
                     ELSE LET a == CHOOSE a \in s : TRUE IN g[a] + h[s \ {a}]]
AddsUp(h, g, S) == Adds(h, g, SUBSET S)
UpToSize(S, n) == {s \in SUBSET S : Cardinality(s) <= n}

\* Taking an element out leaves a set of the size before.
LEMMA UpToSizeGrows ==
  ASSUME NEW S, IsFiniteSet(S), NEW n \in Nat
  PROVE  /\ UpToSize(S, n) \subseteq UpToSize(S, n + 1) /\ {} \in UpToSize(S, n)
         /\ \A s \in UpToSize(S, n + 1) :
              s # {} => LET a == CHOOSE a \in s : TRUE IN s \ {a} \in UpToSize(S, n)
<1>1. ASSUME NEW s \in UpToSize(S, n + 1), s # {}
      PROVE  LET a == CHOOSE a \in s : TRUE IN s \ {a} \in UpToSize(S, n)
  <2> DEFINE a == CHOOSE a \in s : TRUE
  <2>1. a \in s
    BY <1>1
  <2>2. IsFiniteSet(s) /\ Cardinality(s) \in Nat /\ Cardinality(s) <= n + 1
    BY FS_Subset, FS_CardinalityType DEF UpToSize
  <2>3. Cardinality(s \ {a}) = Cardinality(s) - 1
    BY <2>1, <2>2, FS_RemoveElement
  <2> QED
    BY <2>2, <2>3 DEF UpToSize
<1>2. UpToSize(S, n) \subseteq UpToSize(S, n + 1) /\ {} \in UpToSize(S, n)
  <2>1. \A s \in SUBSET S : Cardinality(s) \in Nat
    BY FS_Subset, FS_CardinalityType
  <2> QED
    BY <2>1, FS_EmptySet DEF UpToSize
<1> QED
  BY <1>1, <1>2

\* They exist, size by size.
LEMMA AddsExists ==
  ASSUME NEW S, IsFiniteSet(S), NEW g
  PROVE  \E h : Adds(h, g, SUBSET S)
<1> DEFINE T == {n \in Nat : \E h : Adds(h, g, UpToSize(S, n))}
<1>1. 0 \in T
  <2> DEFINE h0 == [s \in UpToSize(S, 0) |-> 0]
  <2>1. \A s \in UpToSize(S, 0) : s = {}
    BY FS_Subset, FS_EmptySet, FS_CardinalityType DEF UpToSize
  <2>2. Adds(h0, g, UpToSize(S, 0))
    BY <2>1 DEF Adds
  <2> QED
    BY <2>2
<1>2. ASSUME NEW n \in T PROVE n + 1 \in T
  <2>1. PICK h : Adds(h, g, UpToSize(S, n))
    OBVIOUS
  <2> DEFINE k == [s \in UpToSize(S, n + 1) |->
                     IF s \in UpToSize(S, n) THEN h[s]
                     ELSE LET a == CHOOSE a \in s : TRUE IN g[a] + h[s \ {a}]]
  <2>2. /\ UpToSize(S, n) \subseteq UpToSize(S, n + 1) /\ {} \in UpToSize(S, n)
        /\ \A s \in UpToSize(S, n + 1) :
             s # {} => LET a == CHOOSE a \in s : TRUE IN s \ {a} \in UpToSize(S, n)
    BY UpToSizeGrows
  <2>4. ASSUME NEW s \in UpToSize(S, n + 1)
        PROVE  k[s] = IF s = {} THEN 0
                      ELSE LET a == CHOOSE a \in s : TRUE IN g[a] + k[s \ {a}]
    <3>1. \A t \in UpToSize(S, n) : k[t] = h[t]
      BY <2>2
    <3>2. CASE s = {}
      BY <2>1, <2>2, <3>1, <3>2 DEF Adds
    <3>3. CASE s # {}
      <4> DEFINE a == CHOOSE a \in s : TRUE
      <4>1. s \ {a} \in UpToSize(S, n)
        BY <2>2, <3>3
      <4>2. k[s \ {a}] = h[s \ {a}]
        BY <3>1, <4>1
      <4>3. k[s] = g[a] + h[s \ {a}]
        <5>1. CASE s \in UpToSize(S, n)
          <6>1. h[s] = g[a] + h[s \ {a}]
            BY <2>1, <3>3, <5>1 DEF Adds
          <6> QED
            BY <3>1, <5>1, <6>1
        <5>2. CASE s \notin UpToSize(S, n)
          BY <5>2
        <5> QED
          BY <5>1, <5>2
      <4> QED
        BY <3>3, <4>2, <4>3
    <3> QED
      BY <3>2, <3>3
  <2>5. Adds(k, g, UpToSize(S, n + 1))
    <3>1. k = [s \in UpToSize(S, n + 1) |-> k[s]]
      OBVIOUS
    <3> HIDE DEF k
    <3> QED
      BY <2>4, <3>1 DEF Adds
  <2> QED
    BY <2>5
<1>3. T = Nat
  BY <1>1, <1>2, Induct
<1>4. Cardinality(S) \in Nat /\ UpToSize(S, Cardinality(S)) = SUBSET S
  BY FS_Subset, FS_CardinalityType DEF UpToSize
<1>5. Cardinality(S) \in T
  BY <1>3, <1>4
<1> QED
  BY <1>4, <1>5

\* A sum is what they compute.
LEMMA SumIs ==
  ASSUME NEW S, IsFiniteSet(S), NEW g
  PROVE  \E h : AddsUp(h, g, S) /\ SumFunctionOnSet(g, S) = h[S]
<1> DEFINE h == CHOOSE h : AddsUp(h, g, S)
<1>1. AddsUp(h, g, S)
  BY AddsExists DEF AddsUp
<1>2. SumFunctionOnSet(g, S) = h[S]
  BY DEF SumFunctionOnSet, FoldFunctionOnSet, MapThenFoldSet, AddsUp, Adds
<1> QED
  BY <1>1, <1>2

\* What holds for a set once it holds for all that it properly contains holds for
\* every subset of a finite set.
LEMMA SetInduct ==
  ASSUME NEW S, IsFiniteSet(S), NEW F,
         \A T \in SUBSET S : (\A U \in SUBSET T : U # T => U \in F) => T \in F
  PROVE  \A T \in SUBSET S : T \in F
<1> DEFINE Bad == {T \in SUBSET S : T \notin F}
<1> SUFFICES ASSUME Bad # {} PROVE FALSE
  OBVIOUS
<1>1. Bad \subseteq FiniteSubsetsOf(S)
  BY FS_FiniteSubsetsOfFinite
<1> HIDE DEF Bad
<1>2. PICK T \in Bad : \A U \in Bad : <<U, T>> \notin StrictSubsetOrdering(S)
  BY <1>1, FS_StrictSubsetOrderingWellFounded, WFMin
<1> USE DEF Bad
<1>3. ASSUME NEW U \in SUBSET T, U # T PROVE U \in F
  <2>1. <<U, T>> \in StrictSubsetOrdering(S)
    BY <1>3 DEF StrictSubsetOrdering
  <2> QED
    BY <1>2, <2>1
<1>4. T \in SUBSET S /\ T \notin F
  BY <1>2
<1>5. \A U \in SUBSET T : U # T => U \in F
  BY <1>3
<1> QED
  BY <1>4, <1>5

\* The sum does not depend on the set it is computed within.
LEMMA SameSum ==
  ASSUME NEW S, IsFiniteSet(S), NEW R \in SUBSET S, NEW g,
         NEW h, AddsUp(h, g, S), NEW k, AddsUp(k, g, R)
  PROVE  h[R] = k[R]
<1> DEFINE F == {T \in SUBSET R : h[T] = k[T]}
<1>1. IsFiniteSet(R)
  BY FS_Subset
<1>2. ASSUME NEW T \in SUBSET R, \A U \in SUBSET T : U # T => U \in F PROVE T \in F
  <2> DEFINE a == CHOOSE a \in T : TRUE
  <2>1. CASE T = {}
    BY <2>1 DEF AddsUp, Adds
  <2>2. CASE T # {}
    <3>1. a \in T
      BY <2>2
    <3>2. h[T \ {a}] = k[T \ {a}]
      BY <1>2, <3>1
    <3>3. h[T] = g[a] + h[T \ {a}]
      BY <2>2 DEF AddsUp, Adds
    <3>4. k[T] = g[a] + k[T \ {a}]
      BY <2>2 DEF AddsUp, Adds
    <3> QED
      BY <3>2, <3>3, <3>4
  <2> QED
    BY <2>1, <2>2
<1> HIDE DEF F
<1>3. \A T \in SUBSET R : T \in F
  BY <1>1, <1>2, SetInduct
<1>4. R \in F
  BY <1>3
<1> QED
  BY <1>4 DEF F

\* One defining step: some element, the one FoldFunctionOnSet takes first.
LEMMA SumStep ==
  ASSUME NEW S, IsFiniteSet(S), NEW g
  PROVE  /\ SumFunctionOnSet(g, {}) = 0
         /\ S # {} => \E a \in S :
              SumFunctionOnSet(g, S) = g[a] + SumFunctionOnSet(g, S \ {a})
<1>1. SumFunctionOnSet(g, {}) = 0
  <2>1. PICK h : AddsUp(h, g, {}) /\ SumFunctionOnSet(g, {}) = h[{}]
    BY SumIs, FS_EmptySet
  <2> QED
    BY <2>1 DEF AddsUp, Adds
<1>2. ASSUME S # {}
      PROVE  \E a \in S : SumFunctionOnSet(g, S) = g[a] + SumFunctionOnSet(g, S \ {a})
  <2>1. PICK h : AddsUp(h, g, S) /\ SumFunctionOnSet(g, S) = h[S]
    BY SumIs
  <2> DEFINE a == CHOOSE a \in S : TRUE
  <2>2. a \in S /\ IsFiniteSet(S \ {a})
    BY <1>2, FS_RemoveElement
  <2>3. h[S] = g[a] + h[S \ {a}]
    BY <1>2, <2>1 DEF AddsUp, Adds
  <2> HIDE DEF a
  <2> DEFINE rest == S \ {a}
  <2>4. rest \in SUBSET S /\ IsFiniteSet(rest)
    BY <2>2
  <2> HIDE DEF rest
  <2>5. PICK k : AddsUp(k, g, rest) /\ SumFunctionOnSet(g, rest) = k[rest]
    BY <2>4, SumIs
  <2>6. h[rest] = k[rest]
    <3>1. AddsUp(h, g, S) /\ AddsUp(k, g, rest)
      BY <2>1, <2>5
    <3> HIDE DEF rest
    <3> QED
      BY <2>4, <3>1, SameSum
  <2> QED
    BY <2>1, <2>2, <2>3, <2>5, <2>6 DEF rest
<1> QED
  BY <1>1, <1>2

\* Any element may be taken out first.
LEMMA SumAdd ==
  ASSUME NEW S, IsFiniteSet(S), NEW g, \A a \in S : g[a] \in Int
  PROVE  \A T \in SUBSET S :
           /\ SumFunctionOnSet(g, T) \in Int
           /\ \A a \in T : SumFunctionOnSet(g, T) = g[a] + SumFunctionOnSet(g, T \ {a})
<1> DEFINE Sum(T) == SumFunctionOnSet(g, T)
           F == {T \in SUBSET S : Sum(T) \in Int /\ \A a \in T : Sum(T) = g[a] + Sum(T \ {a})}
<1>1. ASSUME NEW T \in SUBSET S, \A U \in SUBSET T : U # T => U \in F PROVE T \in F
  <2>1. IsFiniteSet(T) /\ \A a \in T : g[a] \in Int
    BY FS_Subset
  <2>2. CASE T = {}
    BY <2>1, <2>2, SumStep
  <2>3. CASE T # {}
    <3>1. PICK c \in T : Sum(T) = g[c] + Sum(T \ {c})
      BY <2>1, <2>3, SumStep
    <3>2. ASSUME NEW a \in T PROVE T \ {a} \in F
      BY <1>1
    <3>3. \A a \in T : Sum(T \ {a}) \in Int
      BY <3>2
    <3>4. ASSUME NEW a \in T, a # c PROVE Sum(T) = g[a] + Sum(T \ {a})
      <4>1. Sum(T \ {c}) = g[a] + Sum((T \ {c}) \ {a})
        BY <3>2, <3>4
      <4>2. Sum(T \ {a}) = g[c] + Sum((T \ {a}) \ {c})
        BY <3>2, <3>4
      <4>3. (T \ {c}) \ {a} = (T \ {a}) \ {c}
        OBVIOUS
      <4>4. (T \ {a}) \ {c} \in F
        BY <1>1
      <4> DEFINE rest == Sum((T \ {a}) \ {c})
      <4>5. rest \in Int
        BY <4>4
      <4>6. Sum(T) = g[c] + (g[a] + rest) /\ Sum(T \ {a}) = g[c] + rest
        BY <3>1, <4>1, <4>2, <4>3
      <4> HIDE DEF Sum, rest
      <4> QED
        BY <2>1, <4>5, <4>6
    <3> HIDE DEF Sum
    <3>5. Sum(T) \in Int
      BY <2>1, <3>1, <3>3
    <3> QED
      BY <3>1, <3>4, <3>5
  <2> QED
    BY <2>2, <2>3
<1> HIDE DEF F
<1>2. \A T \in SUBSET S : T \in F
  BY <1>1, SetInduct
<1> QED
  BY <1>2 DEF F

\* A sum of integers is one.
LEMMA SumType ==
  ASSUME NEW S, IsFiniteSet(S), NEW g, \A a \in S : g[a] \in Int
  PROVE  SumFunctionOnSet(g, S) \in Int
BY SumAdd

\* A bigger summand everywhere is a bigger sum, unless there is nothing to add.
LEMMA SumMonotone ==
  ASSUME NEW S, IsFiniteSet(S), NEW f, NEW g, \A a \in S : f[a] \in Int /\ g[a] \in Int
  PROVE  /\ (\A a \in S : f[a] <= g[a]) => SumFunctionOnSet(f, S) <= SumFunctionOnSet(g, S)
         /\ S # {} /\ (\A a \in S : f[a] < g[a])
              => SumFunctionOnSet(f, S) < SumFunctionOnSet(g, S)
<1> DEFINE SumF(T) == SumFunctionOnSet(f, T)
           SumG(T) == SumFunctionOnSet(g, T)
           F == {T \in SUBSET S : /\ (\A a \in T : f[a] <= g[a]) => SumF(T) <= SumG(T)
                                  /\ T # {} /\ (\A a \in T : f[a] < g[a]) => SumF(T) < SumG(T)}
<1>1. ASSUME NEW T \in SUBSET S, \A U \in SUBSET T : U # T => U \in F PROVE T \in F
  <2>1. CASE T = {}
    <3>1. SumF(T) = 0 /\ SumG(T) = 0
      BY <2>1, SumStep
    <3> QED
      BY <2>1, <3>1
  <2>2. CASE T # {}
    <3>1. PICK a \in T : TRUE
      BY <2>2
    <3> DEFINE rest == T \ {a}
    <3>2. /\ SumF(T) = f[a] + SumF(rest) /\ SumG(T) = g[a] + SumG(rest)
          /\ SumF(rest) \in Int /\ SumG(rest) \in Int
      BY SumAdd
    <3>3. rest \in F /\ f[a] \in Int /\ g[a] \in Int
      BY <1>1
    <3>4. /\ (\A b \in rest : f[b] <= g[b]) => SumF(rest) <= SumG(rest)
      BY <3>3
    <3> HIDE DEF SumF, SumG
    <3>5. ASSUME \A b \in T : f[b] <= g[b] PROVE SumF(T) <= SumG(T)
      <4>1. SumF(rest) <= SumG(rest) /\ f[a] <= g[a]
        BY <3>4, <3>5
      <4> QED
        BY <3>2, <3>3, <4>1
    <3>6. ASSUME \A b \in T : f[b] < g[b] PROVE SumF(T) < SumG(T)
      <4>1. SumF(rest) <= SumG(rest) /\ f[a] < g[a]
        BY <3>4, <3>6
      <4> QED
        BY <3>2, <3>3, <4>1
    <3> QED
      BY <3>5, <3>6
  <2> QED
    BY <2>1, <2>2
<1> HIDE DEF F
<1>2. S \in F
  BY <1>1, SetInduct
<1> QED
  BY <1>2 DEF F

\* A common factor comes out of a sum.
LEMMA SumScaled ==
  ASSUME NEW S, IsFiniteSet(S), NEW c \in Int, NEW f, NEW g,
         \A a \in S : g[a] \in Int /\ f[a] = c * g[a]
  PROVE  SumFunctionOnSet(f, S) = c * SumFunctionOnSet(g, S)
<1> DEFINE SumF(T) == SumFunctionOnSet(f, T)
           SumG(T) == SumFunctionOnSet(g, T)
           F == {T \in SUBSET S : SumF(T) = c * SumG(T)}
<1>1. ASSUME NEW T \in SUBSET S, \A U \in SUBSET T : U # T => U \in F PROVE T \in F
  <2>1. CASE T = {}
    <3>1. SumF(T) = 0 /\ SumG(T) = 0
      BY <2>1, SumStep
    <3> QED
      BY <2>1, <3>1
  <2>2. CASE T # {}
    <3>1. PICK a \in T : TRUE
      BY <2>2
    <3> DEFINE rest == T \ {a}
    <3>2. \A b \in S : f[b] \in Int
      OBVIOUS
    <3>3. /\ SumF(T) = f[a] + SumF(rest) /\ SumG(T) = g[a] + SumG(rest)
          /\ SumG(rest) \in Int
      BY <3>2, SumAdd
    <3>4. SumF(rest) = c * SumG(rest) /\ f[a] = c * g[a] /\ g[a] \in Int
      BY <1>1
    <3> HIDE DEF SumF, SumG
    <3>5. SumF(T) = c * SumG(T)
      BY <3>3, <3>4
    <3> QED
      BY <3>5
  <2> QED
    BY <2>1, <2>2
<1> HIDE DEF F
<1>2. S \in F
  BY <1>1, SetInduct
<1> QED
  BY <1>2 DEF F

\* A sum in two parts.
LEMMA SumSplit ==
  ASSUME NEW S, IsFiniteSet(S), NEW g, \A a \in S : g[a] \in Int, NEW P \in SUBSET S
  PROVE  SumFunctionOnSet(g, S) = SumFunctionOnSet(g, P) + SumFunctionOnSet(g, S \ P)
<1> DEFINE Sum(T) == SumFunctionOnSet(g, T)
           F == {T \in SUBSET P : Sum(T \cup (S \ P)) = Sum(T) + Sum(S \ P)}
<1>0. Sum(S \ P) \in Int /\ IsFiniteSet(P)
  BY SumAdd, FS_Subset
<1>1. ASSUME NEW T \in SUBSET P, \A U \in SUBSET T : U # T => U \in F PROVE T \in F
  <2>1. CASE T = {}
    <3>1. Sum(T) = 0 /\ T \cup (S \ P) = S \ P
      BY <2>1, SumStep
    <3>2. Sum(T \cup (S \ P)) = Sum(S \ P)
      BY <3>1
    <3> DEFINE other == Sum(S \ P)
    <3> HIDE DEF other
    <3>3. other = 0 + other
      BY <1>0 DEF other
    <3> QED
      BY <3>1, <3>2, <3>3 DEF other
  <2>2. CASE T # {}
    <3>1. PICK a \in T : TRUE
      BY <2>2
    <3> DEFINE rest == T \ {a}
               both == T \cup (S \ P)
    <3>2. /\ both \in SUBSET S /\ a \in both /\ both \ {a} = rest \cup (S \ P)
          /\ T \in SUBSET S /\ rest \in SUBSET S /\ rest \in SUBSET T /\ rest # T
      BY <3>1
    <3>3. Sum(both) = g[a] + Sum(both \ {a}) /\ Sum(T) = g[a] + Sum(rest) /\ Sum(rest) \in Int
      BY <3>2, SumAdd
    <3>4. Sum(rest \cup (S \ P)) = Sum(rest) + Sum(S \ P) /\ g[a] \in Int
      BY <1>1, <3>2
    <3> DEFINE other == Sum(S \ P)
               less == Sum(rest)
    <3>5. Sum(both) = g[a] + (less + other) /\ Sum(T) = g[a] + less
      BY <3>2, <3>3, <3>4
    <3>6. other \in Int /\ less \in Int
      BY <1>0, <3>3
    <3> HIDE DEF Sum, both, rest, other, less
    <3>7. Sum(both) = Sum(T) + other
      BY <3>4, <3>5, <3>6
    <3> QED
      BY <3>7 DEF both, other
  <2> QED
    BY <2>1, <2>2
<1> HIDE DEF F
<1>2. P \in F
  BY <1>0, <1>1, SetInduct
<1>3. P \cup (S \ P) = S
  OBVIOUS
<1> QED
  BY <1>2, <1>3 DEF F

\* Functions that agree on a set have one sum over it.
LEMMA SumEqual ==
  ASSUME NEW S, IsFiniteSet(S), NEW f, NEW g, \A a \in S : g[a] \in Int /\ f[a] = g[a]
  PROVE  SumFunctionOnSet(f, S) = SumFunctionOnSet(g, S)
<1>1. \A a \in S : f[a] = 1 * g[a]
  OBVIOUS
<1>2. SumFunctionOnSet(f, S) = 1 * SumFunctionOnSet(g, S)
  BY <1>1, SumScaled
<1> QED
  BY <1>2, SumType

\* A positive factor cancels.
LEMMA Cancels ==
  ASSUME NEW K \in Int, K > 0, NEW r \in Int, NEW s \in Int
  PROVE  /\ r * K <= K * s => r <= s
         /\ K * s <= r * K => s <= r
         /\ r * K < K * s => r < s
         /\ K * s < r * K => s < r
<1> DEFINE e == r - s
<1>1. e \in Int /\ r * K - K * s = e * K
  OBVIOUS
<1>2. r * K \in Int /\ K * s \in Int
  OBVIOUS
<1>3. (e > 0 => e * K > 0) /\ (e < 0 => e * K < 0) /\ (e = 0 => e * K = 0)
  BY <1>1
<1> QED
  BY <1>1, <1>2, <1>3

\* If every share of r by the keys is within a limit, r is within their sum.
LEMMA SharesAddUp ==
  ASSUME NEW S, IsFiniteSet(S), S # {}, NEW r \in Int, NEW k, NEW limit,
         \A a \in S : k[a] \in Int /\ limit[a] \in Int,
         SumFunctionOnSet(k, S) > 0
  PROVE  LET K == SumFunctionOnSet(k, S)
             L == SumFunctionOnSet(limit, S)
         IN  /\ (\A a \in S : r * k[a] <= limit[a] * K) => r <= L
             /\ (\A a \in S : limit[a] * K <= r * k[a]) => L <= r
             /\ (\A a \in S : r * k[a] < limit[a] * K) => r < L
             /\ (\A a \in S : limit[a] * K < r * k[a]) => L < r
<1> DEFINE K == SumFunctionOnSet(k, S)
           L == SumFunctionOnSet(limit, S)
           shares == [a \in S |-> r * k[a]]
           limits == [a \in S |-> limit[a] * K]
<1>1. K \in Int /\ L \in Int /\ K > 0
  BY SumType
<1> HIDE DEF K
<1>2. \A a \in S : shares[a] \in Int /\ limits[a] \in Int /\ shares[a] = r * k[a]
                   /\ limits[a] = K * limit[a]
  BY <1>1
<1> HIDE DEF shares, limits
<1>3. SumFunctionOnSet(shares, S) = r * K
  BY <1>2, SumScaled DEF K
<1>4. SumFunctionOnSet(limits, S) = K * L
  BY <1>1, <1>2, SumScaled
<1> HIDE DEF L
<1>5. /\ (\A a \in S : shares[a] <= limits[a]) => r <= L
      /\ (\A a \in S : shares[a] < limits[a]) => r < L
  BY <1>1, <1>2, <1>3, <1>4, SumMonotone, Cancels
<1>6. /\ (\A a \in S : limits[a] <= shares[a]) => L <= r
      /\ (\A a \in S : limits[a] < shares[a]) => L < r
  BY <1>1, <1>2, <1>3, <1>4, SumMonotone, Cancels
<1>7. \A a \in S : shares[a] = r * k[a] /\ limits[a] = limit[a] * K
  BY <1>2 DEF limits
<1> QED
  BY <1>5, <1>6, <1>7 DEF K, L

-----------------------------------------------------------------------------
(* Reactive dispatch.                                                      *)

\* What the machines are, and where some are pinned.
DispatchTypeOK ==
  /\ rating \in [Shared -> Ratings] /\ required \in Int
  /\ pinned \subseteq Shared /\ q \in [Shared -> Int]
  /\ rounds \in Nat /\ settled \in BOOLEAN

\* The limits, by machine.
Mins == [m \in Shared |-> rating[m].min]
Maxs == [m \in Shared |-> rating[m].max]

\* If all are pinned, unless at opposite limits, the machines cannot give what is
\* required, and are at the limits on that side.
AllAtTheEnd ==
  pinned = Shared /\ (\A m \in Shared : Keys[m] > 0) =>
    \/ /\ \A m \in Shared : q[m] = rating[m].max
       /\ required > SumFunctionOnSet(Maxs, Shared)
    \/ /\ \A m \in Shared : q[m] = rating[m].min
       /\ required < SumFunctionOnSet(Mins, Shared)
    \/ PinnedBothWays

\* The types, and: pinned machines are at a limit, a round that does not settle
\* pins one more machine, a settled one leaves no machine beyond a limit.
DispatchInv ==
  /\ DispatchTypeOK
  /\ \A m \in pinned : q[m] = rating[m].max \/ q[m] = rating[m].min
  /\ rounds <= Rounds
  /\ ~settled => rounds <= Cardinality(pinned)
  /\ settled => Beyond = {}
  /\ AllAtTheEnd

\* Limits, keys and their sums are integers.
LEMMA DispatchTypes ==
  ASSUME DispatchTypeOK
  PROVE  /\ \A m \in Shared : rating[m].min \in Int /\ rating[m].max \in Int
                              /\ rating[m].min <= rating[m].max
         /\ \A m \in Shared : Keys[m] \in Nat
         /\ \A T \in SUBSET Shared :
              /\ IsFiniteSet(T)
              /\ SumFunctionOnSet(Keys, T) \in Int /\ SumFunctionOnSet(q, T) \in Int
              /\ SumFunctionOnSet(Mins, T) \in Int /\ SumFunctionOnSet(Maxs, T) \in Int
         /\ FreeKey \in Int /\ Remaining \in Int
<1>1. \A m \in Shared : rating[m] \in Ratings
  BY DEF DispatchTypeOK
<1>2. \A m \in Shared : rating[m].min \in Int /\ rating[m].max \in Int
                        /\ rating[m].min <= rating[m].max /\ rating[m].key \in Nat \cup {NoKey}
  BY <1>1, DispatchAssumption
<1>3. ASSUME NEW m \in Shared PROVE Keys[m] \in Nat
  <2>1. CASE Explicit
    BY <1>2, <2>1 DEF Keys, Explicit
  <2>2. CASE ~Explicit /\ ByCapability
    BY <2>2, DispatchAssumption DEF Keys, ByCapability
  <2>3. CASE ~Explicit /\ ~ByCapability
    BY <2>3 DEF Keys
  <2> QED
    BY <2>1, <2>2, <2>3
<1>4. \A m \in Shared : Keys[m] \in Int /\ q[m] \in Int /\ Mins[m] \in Int /\ Maxs[m] \in Int
  BY <1>2, <1>3 DEF DispatchTypeOK, Mins, Maxs
<1>5. ASSUME NEW T \in SUBSET Shared
      PROVE  /\ IsFiniteSet(T)
             /\ SumFunctionOnSet(Keys, T) \in Int /\ SumFunctionOnSet(q, T) \in Int
             /\ SumFunctionOnSet(Mins, T) \in Int /\ SumFunctionOnSet(Maxs, T) \in Int
  <2>1. IsFiniteSet(T)
    BY FS_Subset, DispatchAssumption
  <2>2. \A m \in T : Keys[m] \in Int /\ q[m] \in Int /\ Mins[m] \in Int /\ Maxs[m] \in Int
    BY <1>4
  <2> QED
    BY <2>1, <2>2, SumType
<1>6. FreeKey \in Int /\ Remaining \in Int
  BY <1>5 DEF FreeKey, Remaining, DispatchTypeOK
<1> QED
  BY <1>2, <1>3, <1>5, <1>6

\* The same by machine, with the limits in order.
LEMMA LimitTypes ==
  ASSUME DispatchTypeOK
  PROVE  /\ IsFiniteSet(Shared \ pinned) /\ IsFiniteSet(pinned)
         /\ Remaining \in Int /\ FreeKey \in Int
         /\ \A m \in Shared : /\ Keys[m] \in Int /\ Mins[m] \in Int /\ Maxs[m] \in Int
                              /\ Mins[m] = rating[m].min /\ Maxs[m] = rating[m].max
                              /\ Mins[m] <= Maxs[m] /\ q[m] \in Int
<1>1. pinned \in SUBSET Shared /\ Shared \ pinned \in SUBSET Shared
  BY DEF DispatchTypeOK
<1>2. /\ IsFiniteSet(Shared \ pinned) /\ IsFiniteSet(pinned)
      /\ Remaining \in Int /\ FreeKey \in Int
  BY <1>1, DispatchTypes
<1>3. \A m \in Shared : Mins[m] = rating[m].min /\ Maxs[m] = rating[m].max /\ q[m] \in Int
  BY DEF Mins, Maxs, DispatchTypeOK
<1>4. \A m \in Shared : /\ rating[m].min \in Int /\ rating[m].max \in Int
                        /\ rating[m].min <= rating[m].max
                        /\ Keys[m] \in Int
  BY DispatchTypes
<1> QED
  BY <1>2, <1>3, <1>4

\* While the keys are positive and a machine is free, there is a key to share by.
LEMMA KeyIsLeft ==
  ASSUME DispatchTypeOK, pinned # Shared, \A m \in Shared : Keys[m] > 0
  PROVE  FreeKey > 0
<1> DEFINE Zero == [m \in Shared |-> 0]
           Others == Shared \ pinned
<1>1. Others # {} /\ Others \in SUBSET Shared
  BY DEF DispatchTypeOK
<1>2. IsFiniteSet(Others) /\ \A m \in Others : Zero[m] \in Int /\ Keys[m] \in Int /\ Zero[m] < Keys[m]
  BY <1>1, DispatchTypes
<1>3. \A m \in Others : Zero[m] = 0 * Keys[m]
  BY <1>2
<1>4. SumFunctionOnSet(Zero, Others) = 0 * FreeKey
  BY <1>2, <1>3, SumScaled DEF FreeKey
<1>5. SumFunctionOnSet(Zero, Others) < SumFunctionOnSet(Keys, Others)
  BY <1>1, <1>2, SumMonotone
<1> QED
  BY <1>4, <1>5, DispatchTypes DEF FreeKey

\* What is pinned and what is free add up to all.
LEMMA PinnedAndFree ==
  ASSUME DispatchTypeOK
  PROVE  LET Sum(f, T) == SumFunctionOnSet(f, T)
             Others == Shared \ pinned
         IN  /\ Sum(Mins, Shared) = Sum(Mins, pinned) + Sum(Mins, Others)
             /\ Sum(Maxs, Shared) = Sum(Maxs, pinned) + Sum(Maxs, Others)
             /\ required = Sum(q, pinned) + Remaining
<1>1. /\ IsFiniteSet(Shared) /\ pinned \in SUBSET Shared
      /\ \A m \in Shared : Mins[m] \in Int /\ Maxs[m] \in Int
  BY DispatchTypes, DispatchAssumption DEF DispatchTypeOK, Mins, Maxs
<1>2. /\ SumFunctionOnSet(Mins, Shared)
           = SumFunctionOnSet(Mins, pinned) + SumFunctionOnSet(Mins, Shared \ pinned)
      /\ SumFunctionOnSet(Maxs, Shared)
           = SumFunctionOnSet(Maxs, pinned) + SumFunctionOnSet(Maxs, Shared \ pinned)
  BY <1>1, SumSplit
<1>3. required = SumFunctionOnSet(q, pinned) + Remaining
  <2>1. required \in Int /\ SumFunctionOnSet(q, pinned) \in Int
    BY <1>1, DispatchTypes DEF DispatchTypeOK
  <2> QED
    BY <2>1 DEF Remaining
<1> QED
  BY <1>2, <1>3

\* Nothing is pinned at first.
LEMMA DispatchInitInv == DispatchInit => DispatchInv
<1> SUFFICES ASSUME DispatchInit PROVE DispatchInv
  OBVIOUS
<1>1. DispatchTypeOK
  <2>1. required \in Int /\ q \in [Shared -> Int]
    BY DispatchAssumption DEF DispatchInit
  <2> QED
    BY <2>1 DEF DispatchInit, DispatchTypeOK
<1>2. Cardinality(Shared) \in Nat /\ Cardinality(pinned) = 0
  BY DispatchAssumption, FS_CardinalityType, FS_EmptySet DEF DispatchInit
<1>3. rounds <= Rounds /\ (~settled => rounds <= Cardinality(pinned)) /\ ~settled
  BY <1>2 DEF DispatchInit, Rounds
<1>4. AllAtTheEnd
  BY DispatchAssumption DEF DispatchInit, AllAtTheEnd
<1> QED
  BY <1>1, <1>3, <1>4 DEF DispatchInit, DispatchInv

\* A machine is never beyond both limits.
LEMMA OneSide ==
  ASSUME DispatchTypeOK, NEW m \in Shared, FreeKey > 0
  PROVE  ~(Over(m) /\ Under(m))
<1> DEFINE least == rating[m].min
           high == rating[m].max
           share == Remaining * Keys[m]
           K == FreeKey
<1>1. least \in Int /\ high \in Int /\ least <= high /\ K \in Int /\ K > 0
  BY DispatchTypes
<1>2. share \in Int
  BY DispatchTypes
<1>3. (Over(m) => share > high * K) /\ (Under(m) => share < least * K)
  BY <1>1 DEF Over, Under
<1> HIDE DEF least, high, share, K
<1>4. least * K <= high * K
  BY <1>1
<1>5. least * K \in Int /\ high * K \in Int
  BY <1>1
<1> QED
  BY <1>2, <1>3, <1>4, <1>5

\* The machines pinned last: all beyond one limit, or pinned at opposite ones.
LEMMA LastPinned ==
  ASSUME DispatchInv, SplitRound, Beyond # {}, pinned' = Shared,
         \A m \in Shared : Keys[m] > 0, ~PinnedBothWays'
  PROVE  \/ /\ \A m \in Shared : q'[m] = rating[m].max
            /\ \A m \in Shared \ pinned : Over(m)
         \/ /\ \A m \in Shared : q'[m] = rating[m].min
            /\ \A m \in Shared \ pinned : Under(m)
<1>1. DispatchTypeOK /\ Beyond = Shared \ pinned /\ rating' = rating
  BY DEF DispatchInv, DispatchTypeOK, SplitRound, Beyond
<1>2. \A m \in Shared : q'[m] = IF m \in pinned THEN q[m]
                                ELSE IF Over(m) THEN rating[m].max ELSE rating[m].min
  BY <1>1 DEF SplitRound
<1>3. \A m \in Shared : q'[m] = rating[m].max \/ q'[m] = rating[m].min
  BY <1>2 DEF DispatchInv
<1>4. \A m, n \in Shared : m # n => ~(q'[m] = rating[m].max /\ q'[n] = rating[n].min)
  BY <1>1 DEF PinnedBothWays
<1>5. \A m \in Shared \ pinned : Over(m) \/ Under(m)
  BY <1>1 DEF Beyond
<1>6. CASE \E m \in Shared \ pinned : Over(m)
  <2>1. PICK m \in Shared \ pinned : Over(m)
    BY <1>6
  <2>2. q'[m] = rating[m].max
    BY <1>2, <2>1
  <2>3. \A n \in Shared : n # m => q'[n] # rating[n].min
    BY <1>4, <2>2
  <2>4. \A n \in Shared \ pinned : Over(n)
    BY <1>2, <2>1, <2>3
  <2> QED
    BY <1>3, <2>2, <2>3, <2>4
<1>7. CASE \A m \in Shared \ pinned : ~Over(m)
  <2>1. PICK m \in Shared \ pinned : ~Over(m)
    BY <1>1, <1>7
  <2>2. q'[m] = rating[m].min
    BY <1>2, <2>1
  <2>3. \A n \in Shared : n # m => q'[n] # rating[n].max
    BY <1>4, <2>2
  <2> QED
    BY <1>3, <1>5, <1>7, <2>2, <2>3
<1> QED
  BY <1>6, <1>7

\* The machines of a side that were pinned before, and those pinned now.
LEMMA AllOnOneSide ==
  ASSUME DispatchInv, SplitRound, Beyond # {}, pinned' = Shared,
         \A m \in Shared : Keys[m] > 0, ~PinnedBothWays'
  PROVE  \/ /\ \A m \in Shared : q'[m] = rating[m].max
            /\ required > SumFunctionOnSet(Maxs, Shared)
         \/ /\ \A m \in Shared : q'[m] = rating[m].min
            /\ required < SumFunctionOnSet(Mins, Shared)
<1> DEFINE Others == Shared \ pinned
<1>1. /\ DispatchTypeOK /\ Others # {} /\ pinned \subseteq Shared
      /\ \A m \in pinned : q'[m] = q[m]
  BY DEF DispatchInv, DispatchTypeOK, SplitRound, Beyond
<1>2. FreeKey > 0 /\ FreeKey = SumFunctionOnSet(Keys, Others)
  BY <1>1, KeyIsLeft DEF FreeKey
<1>3. /\ IsFiniteSet(Others) /\ IsFiniteSet(pinned) /\ Remaining \in Int
      /\ \A m \in Shared : /\ Keys[m] \in Int /\ Mins[m] \in Int /\ Maxs[m] \in Int
                           /\ Mins[m] = rating[m].min /\ Maxs[m] = rating[m].max
                           /\ q[m] \in Int
  BY <1>1, LimitTypes
<1>4. \A m \in Others : (Over(m) => Maxs[m] * FreeKey < Remaining * Keys[m])
                        /\ (Under(m) => Remaining * Keys[m] < Mins[m] * FreeKey)
  BY <1>2, <1>3, DispatchTypes DEF Over, Under
<1>5. CASE /\ \A m \in Shared : q'[m] = rating[m].max
           /\ \A m \in Others : Over(m)
  <2>1. SumFunctionOnSet(Maxs, Others) < Remaining
    <3>1. \A m \in Others : Maxs[m] * FreeKey < Remaining * Keys[m]
      BY <1>4, <1>5
    <3> QED
      BY <1>1, <1>2, <1>3, <3>1, SharesAddUp
  <2>2. SumFunctionOnSet(q, pinned) = SumFunctionOnSet(Maxs, pinned)
    BY <1>1, <1>3, <1>5, SumEqual
  <2>3. required > SumFunctionOnSet(Maxs, Shared)
    <3>1. /\ SumFunctionOnSet(Maxs, Others) \in Int /\ SumFunctionOnSet(Maxs, pinned) \in Int
          /\ SumFunctionOnSet(Maxs, Shared) = SumFunctionOnSet(Maxs, pinned)
                                              + SumFunctionOnSet(Maxs, Others)
          /\ required = SumFunctionOnSet(q, pinned) + Remaining
      BY <1>1, PinnedAndFree, DispatchTypes
    <3> QED
      BY <1>3, <2>1, <2>2, <3>1
  <2> QED
    BY <1>5, <2>3
<1>6. CASE /\ \A m \in Shared : q'[m] = rating[m].min
           /\ \A m \in Others : Under(m)
  <2>1. Remaining < SumFunctionOnSet(Mins, Others)
    <3>1. \A m \in Others : Remaining * Keys[m] < Mins[m] * FreeKey
      BY <1>4, <1>6
    <3> QED
      BY <1>1, <1>2, <1>3, <3>1, SharesAddUp
  <2>2. SumFunctionOnSet(q, pinned) = SumFunctionOnSet(Mins, pinned)
    BY <1>1, <1>3, <1>6, SumEqual
  <2>3. required < SumFunctionOnSet(Mins, Shared)
    <3>1. /\ SumFunctionOnSet(Mins, Others) \in Int /\ SumFunctionOnSet(Mins, pinned) \in Int
          /\ SumFunctionOnSet(Mins, Shared) = SumFunctionOnSet(Mins, pinned)
                                              + SumFunctionOnSet(Mins, Others)
          /\ required = SumFunctionOnSet(q, pinned) + Remaining
      BY <1>1, PinnedAndFree, DispatchTypes
    <3> QED
      BY <1>3, <2>1, <2>2, <3>1
  <2> QED
    BY <1>6, <2>3
<1> QED
  BY <1>5, <1>6, LastPinned

\* A round keeps all of it.
LEMMA DispatchStep == DispatchInv /\ [DispatchNext]_dispatchvars => DispatchInv'
<1> SUFFICES ASSUME DispatchInv, [DispatchNext]_dispatchvars PROVE DispatchInv'
  OBVIOUS
<1>1. CASE UNCHANGED dispatchvars
  <2>1. /\ rating' = rating /\ required' = required /\ pinned' = pinned /\ q' = q
        /\ rounds' = rounds /\ settled' = settled
    BY <1>1 DEF dispatchvars
  <2>2. Keys' = Keys /\ Mins' = Mins /\ Maxs' = Maxs
    BY <2>1 DEF Keys, Explicit, ByCapability, Width, Mins, Maxs
  <2>3. Beyond' = Beyond
    BY <2>1, <2>2 DEF Beyond, Over, Under, FreeKey, Remaining
  <2>4. (PinnedBothWays' <=> PinnedBothWays)
    BY <2>1 DEF PinnedBothWays
  <2>5. AllAtTheEnd'
    BY <2>1, <2>2, <2>4 DEF DispatchInv, AllAtTheEnd
  <2>6. DispatchTypeOK'
    BY <2>1 DEF DispatchInv, DispatchTypeOK
  <2> QED
    BY <2>1, <2>3, <2>5, <2>6 DEF DispatchInv, Rounds
<1>2. CASE SplitRound
  <2>1. DispatchTypeOK /\ rating' = rating /\ required' = required /\ ~settled
    BY <1>2 DEF SplitRound, DispatchInv
  <2>2. \A m \in Shared : rating[m].min \in Int /\ rating[m].max \in Int
    BY <2>1, DispatchTypes
  <2>3. /\ \A m \in Beyond : q'[m] = rating[m].max \/ q'[m] = rating[m].min
        /\ \A m \in Shared \ Beyond : q'[m] = q[m]
        /\ q' \in [Shared -> Int]
    BY <1>2, <2>1, <2>2 DEF SplitRound, DispatchTypeOK, Beyond
  <2>4. Beyond \subseteq Shared \ pinned
    BY DEF Beyond
  <2>5. DispatchTypeOK'
    BY <1>2, <2>1, <2>3, <2>4 DEF SplitRound, DispatchTypeOK
  <2>6. (\A m \in pinned : q[m] = rating[m].max \/ q[m] = rating[m].min)'
    BY <1>2, <2>1, <2>3, <2>4 DEF SplitRound, DispatchInv, DispatchTypeOK
  <2>7. Cardinality(Shared) \in Nat /\ IsFiniteSet(pinned) /\ IsFiniteSet(pinned')
    BY <2>1, <2>5, FS_CardinalityType, FS_Subset, DispatchAssumption DEF DispatchTypeOK
  <2>8. (rounds <= Rounds)'
    BY <1>2, <2>1, <2>7 DEF SplitRound, Rounds, DispatchTypeOK
  <2>9. (~settled => rounds <= Cardinality(pinned))'
    <3> SUFFICES ASSUME Beyond # {} PROVE rounds' <= Cardinality(pinned')
      BY <1>2 DEF SplitRound
    <3>1. pinned \subseteq pinned' /\ pinned # pinned'
      BY <1>2, <2>4 DEF SplitRound
    <3>2. Cardinality(pinned) < Cardinality(pinned')
      <4>1. /\ Cardinality(pinned) <= Cardinality(pinned')
            /\ Cardinality(pinned) = Cardinality(pinned') => pinned = pinned'
        BY <2>7, <3>1, FS_Subset
      <4> QED
        BY <2>7, <3>1, <4>1, FS_CardinalityType
    <3>3. rounds <= Cardinality(pinned)
      BY <2>1 DEF DispatchInv
    <3> QED
      BY <1>2, <2>1, <2>7, <3>2, <3>3, FS_CardinalityType DEF SplitRound, DispatchTypeOK
  <2>10. ASSUME Beyond = {}
         PROVE  pinned' = pinned /\ q' = q
    BY <1>2, <2>1, <2>3, <2>10 DEF SplitRound, DispatchTypeOK
  <2>11. (settled => Beyond = {})'
    <3> SUFFICES ASSUME Beyond = {} PROVE Beyond' = {}
      BY <1>2 DEF SplitRound
    <3> QED
      BY <2>1, <2>10 DEF Beyond, Over, Under, FreeKey, Remaining, Keys, Explicit,
                         ByCapability, Width
  <2>12. AllAtTheEnd'
    <3>1. Keys' = Keys /\ Mins' = Mins /\ Maxs' = Maxs
      BY <2>1 DEF Keys, Explicit, ByCapability, Width, Mins, Maxs
    <3>2. CASE Beyond = {}
      <4>1. PinnedBothWays' <=> PinnedBothWays
        BY <2>1, <2>10, <3>2 DEF PinnedBothWays
      <4> QED
        BY <2>1, <2>10, <3>1, <3>2, <4>1 DEF DispatchInv, AllAtTheEnd
    <3>3. CASE Beyond # {}
      <4> SUFFICES ASSUME pinned' = Shared, \A m \in Shared : Keys[m] > 0, ~PinnedBothWays'
                   PROVE  AllAtTheEnd'
        BY <3>1 DEF AllAtTheEnd
      <4>1. \/ /\ \A m \in Shared : q'[m] = rating[m].max
               /\ required > SumFunctionOnSet(Maxs, Shared)
            \/ /\ \A m \in Shared : q'[m] = rating[m].min
               /\ required < SumFunctionOnSet(Mins, Shared)
        BY <1>2, <3>3, AllOnOneSide
      <4> QED
        BY <2>1, <3>1, <4>1 DEF AllAtTheEnd
    <3> QED
      BY <3>2, <3>3
  <2> QED
    BY <2>5, <2>6, <2>8, <2>9, <2>11, <2>12 DEF DispatchInv
<1> QED
  BY <1>1, <1>2 DEF DispatchNext

\* What the machines can give is between the sums of their limits.
LEMMA WithinTheLimits ==
  ASSUME DispatchInv, Beyond = {}, pinned # Shared, \A m \in Shared : Keys[m] > 0
  PROVE  /\ SumFunctionOnSet(Mins, Shared) <= required
         /\ required <= SumFunctionOnSet(Maxs, Shared)
<1> DEFINE Others == Shared \ pinned
<1>1. DispatchTypeOK /\ Others # {} /\ pinned \subseteq Shared
  BY DEF DispatchInv, DispatchTypeOK
<1>2. FreeKey > 0 /\ FreeKey = SumFunctionOnSet(Keys, Others)
  BY <1>1, KeyIsLeft DEF FreeKey
<1>3. /\ IsFiniteSet(Others) /\ IsFiniteSet(pinned) /\ Remaining \in Int /\ FreeKey \in Int
      /\ \A m \in Shared : /\ Keys[m] \in Int /\ Mins[m] \in Int /\ Maxs[m] \in Int
                           /\ Mins[m] = rating[m].min /\ Maxs[m] = rating[m].max
                           /\ Mins[m] <= Maxs[m] /\ q[m] \in Int
  BY <1>1, LimitTypes
<1>4. \A m \in Others : /\ Remaining * Keys[m] <= Maxs[m] * FreeKey
                        /\ Mins[m] * FreeKey <= Remaining * Keys[m]
  <2> SUFFICES ASSUME NEW m \in Others
               PROVE  /\ Remaining * Keys[m] <= Maxs[m] * FreeKey
                      /\ Mins[m] * FreeKey <= Remaining * Keys[m]
    OBVIOUS
  <2>1. ~Over(m) /\ ~Under(m)
    BY DEF Beyond
  <2>2. /\ ~(Remaining * Keys[m] > Maxs[m] * FreeKey)
        /\ ~(Remaining * Keys[m] < Mins[m] * FreeKey)
    BY <1>2, <1>3, <2>1 DEF Over, Under
  <2> DEFINE share == Remaining * Keys[m]
             top == Maxs[m] * FreeKey
             bottom == Mins[m] * FreeKey
  <2>3. share \in Int /\ top \in Int /\ bottom \in Int
    BY <1>3
  <2> HIDE DEF share, top, bottom
  <2>4. ~(share > top) /\ ~(share < bottom)
    BY <2>2 DEF share, top, bottom
  <2>5. share <= top /\ bottom <= share
    BY <2>3, <2>4
  <2> QED
    BY <2>5 DEF share, top, bottom
<1>5. /\ Remaining <= SumFunctionOnSet(Maxs, Others)
      /\ SumFunctionOnSet(Mins, Others) <= Remaining
  BY <1>1, <1>2, <1>3, <1>4, SharesAddUp
<1>6. \A m \in pinned : Mins[m] <= q[m] /\ q[m] <= Maxs[m]
  BY <1>1, <1>3 DEF DispatchInv
<1>7. /\ SumFunctionOnSet(Mins, pinned) <= SumFunctionOnSet(q, pinned)
      /\ SumFunctionOnSet(q, pinned) <= SumFunctionOnSet(Maxs, pinned)
  <2>1. \A m \in pinned : Mins[m] \in Int /\ Maxs[m] \in Int /\ q[m] \in Int
    BY <1>1, <1>3
  <2> QED
    BY <1>3, <1>6, <2>1, SumMonotone
<1> DEFINE lowPinned == SumFunctionOnSet(Mins, pinned)
           highPinned == SumFunctionOnSet(Maxs, pinned)
           lowOthers == SumFunctionOnSet(Mins, Others)
           highOthers == SumFunctionOnSet(Maxs, Others)
           given == SumFunctionOnSet(q, pinned)
<1>8. /\ lowPinned \in Int /\ highPinned \in Int /\ lowOthers \in Int /\ highOthers \in Int
      /\ given \in Int /\ required = given + Remaining
      /\ SumFunctionOnSet(Mins, Shared) = lowPinned + lowOthers
      /\ SumFunctionOnSet(Maxs, Shared) = highPinned + highOthers
  BY <1>1, PinnedAndFree, DispatchTypes
<1> HIDE DEF lowPinned, highPinned, lowOthers, highOthers, given
<1>9. /\ Remaining <= highOthers /\ lowOthers <= Remaining
      /\ lowPinned <= given /\ given <= highPinned
  BY <1>5, <1>7 DEF lowPinned, highPinned, lowOthers, highOthers, given
<1> QED
  BY <1>3, <1>8, <1>9

\* The rounds are enough, since each pins a machine; then either all machines are
\* at the end of one side or what is left is within the limits of the free ones.
LEMMA SplitIsComplete == DispatchInv => NothingIsLeftOnTheTable
<1> SUFFICES ASSUME DispatchInv, settled \/ rounds = Rounds
             PROVE  /\ settled /\ Beyond = {}
                    /\ (\A m \in Shared : Keys[m] > 0) /\ ~PinnedBothWays
                         => Attributed = Capability
  BY DEF NothingIsLeftOnTheTable
<1>1. DispatchTypeOK
  BY DEF DispatchInv
<1>2. settled /\ Beyond = {}
  <2>1. Cardinality(pinned) <= Cardinality(Shared) /\ Cardinality(Shared) \in Nat
        /\ Cardinality(pinned) \in Nat
    BY <1>1, DispatchAssumption, FS_Subset, FS_CardinalityType DEF DispatchTypeOK
  <2>2. settled
    BY <1>1, <2>1 DEF DispatchInv, Rounds, DispatchTypeOK
  <2> QED
    BY <2>2 DEF DispatchInv
<1>3. ASSUME \A m \in Shared : Keys[m] > 0, ~PinnedBothWays
      PROVE  Attributed = Capability
  <2> DEFINE least == SumFunctionOnSet(Mins, Shared)
             high == SumFunctionOnSet(Maxs, Shared)
             given == SumFunctionOnSet(q, pinned)
  <2>1. Capability = IF required < least THEN least ELSE IF required > high THEN high ELSE required
    BY DEF Capability, Mins, Maxs
  <2>2. least \in Int /\ high \in Int /\ given \in Int /\ required \in Int /\ Remaining \in Int
    BY <1>1, DispatchTypes DEF DispatchTypeOK
  <2>3. /\ IsFiniteSet(Shared)
        /\ \A m \in Shared : /\ Mins[m] = rating[m].min /\ Maxs[m] = rating[m].max
                             /\ Mins[m] \in Int /\ Maxs[m] \in Int /\ Mins[m] <= Maxs[m]
                             /\ q[m] \in Int
    BY <1>1, DispatchTypes, DispatchAssumption DEF Mins, Maxs, DispatchTypeOK
  <2>4. least <= high
    BY <2>3, SumMonotone
  <2>5. CASE pinned = Shared
    <3>1. Attributed = given
      BY <2>2, <2>5 DEF Attributed
    <3>2. CASE (\A m \in Shared : q[m] = rating[m].max) /\ required > high
      <4>1. given = high
        BY <2>3, <2>5, <3>2, SumEqual
      <4> HIDE DEF least, high, given
      <4> QED
        BY <2>1, <2>2, <2>4, <3>1, <3>2, <4>1
    <3>3. CASE (\A m \in Shared : q[m] = rating[m].min) /\ required < least
      <4>1. given = least
        BY <2>3, <2>5, <3>3, SumEqual
      <4> HIDE DEF least, high, given
      <4> QED
        BY <2>1, <2>2, <3>1, <3>3, <4>1
    <3> QED
      BY <1>3, <2>5, <3>2, <3>3 DEF DispatchInv, AllAtTheEnd
  <2>6. CASE pinned # Shared
    <3>1. FreeKey > 0
      BY <1>1, <1>3, <2>6, KeyIsLeft
    <3>2. Attributed = required
      <4>1. Attributed = given + Remaining
        BY <2>6, <3>1 DEF Attributed
      <4>2. required = given + Remaining
        BY <1>1, PinnedAndFree
      <4> QED
        BY <4>1, <4>2
    <3>3. least <= required /\ required <= high
      BY <1>2, <1>3, <2>6, WithinTheLimits
    <3> HIDE DEF least, high, given
    <3> QED
      BY <2>1, <2>2, <3>2, <3>3
  <2> QED
    BY <2>5, <2>6
<1> QED
  BY <1>2, <1>3

\* Whatever the machines, their limits and the total, split settles within its
\* rounds, and allocate leaves nothing that the machines could have given together
\* unless some are pinned at opposite limits or a key is zero.
THEOREM TheSplitIsComplete == DispatchSpec => []NothingIsLeftOnTheTable
<1>1. DispatchInit => DispatchInv
  BY DispatchInitInv
<1>2. DispatchInv /\ [DispatchNext]_dispatchvars => DispatchInv'
  BY DispatchStep
<1>3. DispatchInv => NothingIsLeftOnTheTable
  BY SplitIsComplete
<1> QED
  BY <1>1, <1>2, <1>3, PTL DEF DispatchSpec

-----------------------------------------------------------------------------
(* Labels and unions.                                                      *)

\* Every group is inside the set or outside.
Respects(d, S) == \A u, v \in DOMAIN d : d[u] = d[v] => (u \in S <=> v \in S)

\* A union respects what the labels respected and does not part its ends.
LEMMA UnionRespects ==
  ASSUME NEW D, NEW L, NEW d \in [D -> L], NEW a \in D, NEW b \in D, NEW S
  PROVE  /\ Union(d, a, b) \in [D -> L]
         /\ Respects(Union(d, a, b), S) <=> Respects(d, S) /\ (a \in S <=> b \in S)
<1> DEFINE e == Union(d, a, b)
<1>1. /\ e \in [D -> L] /\ DOMAIN e = D /\ DOMAIN d = D
      /\ \A u \in D : e[u] = IF d[u] = d[a] THEN d[b] ELSE d[u]
  BY DEF Union
<1> HIDE DEF e
<1>2. ASSUME Respects(e, S) PROVE Respects(d, S) /\ (a \in S <=> b \in S)
  <2>1. \A u, v \in D : e[u] = e[v] => (u \in S <=> v \in S)
    BY <1>1, <1>2 DEF Respects
  <2>2. \A u, v \in D : d[u] = d[v] => e[u] = e[v]
    BY <1>1
  <2>3. e[a] = e[b]
    BY <1>1
  <2> QED
    BY <1>1, <2>1, <2>2, <2>3 DEF Respects
<1>3. ASSUME Respects(d, S), a \in S <=> b \in S PROVE Respects(e, S)
  <2>1. \A u, v \in D : d[u] = d[v] => (u \in S <=> v \in S)
    BY <1>1, <1>3 DEF Respects
  <2>2. ASSUME NEW u \in D, NEW v \in D, e[u] = e[v] PROVE u \in S <=> v \in S
    <3>1. CASE d[u] = d[a] /\ d[v] = d[a]
      BY <2>1, <3>1
    <3>2. CASE d[u] = d[a] /\ d[v] # d[a]
      <4>1. d[b] = d[v]
        BY <1>1, <2>2, <3>2
      <4> QED
        BY <1>3, <2>1, <3>2, <4>1
    <3>3. CASE d[u] # d[a] /\ d[v] = d[a]
      <4>1. d[u] = d[b]
        BY <1>1, <2>2, <3>3
      <4> QED
        BY <1>3, <2>1, <3>3, <4>1
    <3>4. CASE d[u] # d[a] /\ d[v] # d[a]
      BY <1>1, <2>1, <2>2, <3>4
    <3> QED
      BY <3>1, <3>2, <3>3, <3>4
  <2> QED
    BY <1>1, <2>2 DEF Respects
<1> QED
  BY <1>1, <1>2, <1>3 DEF e

\* What the labels are computed by, over the sets of pairs.
Joins(h, d, dom) ==
  h = [s \in dom |-> IF s = {} THEN d
                     ELSE LET p == CHOOSE p \in s : TRUE IN Union(h[s \ {p}], p[1], p[2])]

\* They exist, size by size.
LEMMA JoinsExists ==
  ASSUME NEW P, IsFiniteSet(P), NEW d
  PROVE  \E h : Joins(h, d, SUBSET P)
<1> DEFINE T == {n \in Nat : \E h : Joins(h, d, UpToSize(P, n))}
<1>1. 0 \in T
  <2> DEFINE h0 == [s \in UpToSize(P, 0) |-> d]
  <2>1. \A s \in UpToSize(P, 0) : s = {}
    BY FS_Subset, FS_EmptySet, FS_CardinalityType DEF UpToSize
  <2>2. Joins(h0, d, UpToSize(P, 0))
    BY <2>1 DEF Joins
  <2> QED
    BY <2>2
<1>2. ASSUME NEW n \in T PROVE n + 1 \in T
  <2>1. PICK h : Joins(h, d, UpToSize(P, n))
    OBVIOUS
  <2> DEFINE k == [s \in UpToSize(P, n + 1) |->
                     IF s \in UpToSize(P, n) THEN h[s]
                     ELSE LET p == CHOOSE p \in s : TRUE IN Union(h[s \ {p}], p[1], p[2])]
  <2>2. /\ UpToSize(P, n) \subseteq UpToSize(P, n + 1) /\ {} \in UpToSize(P, n)
        /\ \A s \in UpToSize(P, n + 1) :
             s # {} => LET p == CHOOSE p \in s : TRUE IN s \ {p} \in UpToSize(P, n)
    BY UpToSizeGrows
  <2>3. ASSUME NEW s \in UpToSize(P, n + 1)
        PROVE  k[s] = IF s = {} THEN d
                      ELSE LET p == CHOOSE p \in s : TRUE IN Union(k[s \ {p}], p[1], p[2])
    <3>1. \A t \in UpToSize(P, n) : k[t] = h[t]
      BY <2>2
    <3>2. CASE s = {}
      BY <2>1, <2>2, <3>1, <3>2 DEF Joins
    <3>3. CASE s # {}
      <4> DEFINE p == CHOOSE p \in s : TRUE
      <4>1. k[s \ {p}] = h[s \ {p}]
        BY <2>2, <3>1, <3>3
      <4>2. k[s] = Union(h[s \ {p}], p[1], p[2])
        <5>1. CASE s \in UpToSize(P, n)
          <6>1. h[s] = Union(h[s \ {p}], p[1], p[2])
            BY <2>1, <3>3, <5>1 DEF Joins
          <6> QED
            BY <3>1, <5>1, <6>1
        <5>2. CASE s \notin UpToSize(P, n)
          BY <5>2
        <5> QED
          BY <5>1, <5>2
      <4> QED
        BY <3>3, <4>1, <4>2
    <3> QED
      BY <3>2, <3>3
  <2>4. Joins(k, d, UpToSize(P, n + 1))
    <3>1. k = [s \in UpToSize(P, n + 1) |-> k[s]]
      OBVIOUS
    <3> HIDE DEF k
    <3> QED
      BY <2>3, <3>1 DEF Joins
  <2> QED
    BY <2>4
<1>3. T = Nat
  BY <1>1, <1>2, Induct
<1>4. Cardinality(P) \in Nat /\ UpToSize(P, Cardinality(P)) = SUBSET P
  BY FS_Subset, FS_CardinalityType DEF UpToSize
<1>5. Cardinality(P) \in T
  BY <1>3, <1>4
<1> QED
  BY <1>4, <1>5

\* The groups of joined labels: the sets that were respected and no pair leaves.
LEMMA JoinedRespects ==
  ASSUME NEW D, NEW L, NEW d \in [D -> L], NEW P, IsFiniteSet(P),
         \A p \in P : p[1] \in D /\ p[2] \in D
  PROVE  /\ Joined(d, P) \in [D -> L]
         /\ \A S : Respects(Joined(d, P), S) <=> Respects(d, S) /\ Linked(P, S)
<1>1. PICK h : Joins(h, d, SUBSET P)
  BY JoinsExists
<1> DEFINE k == CHOOSE h1 : Joins(h1, d, SUBSET P)
<1>2. Joins(k, d, SUBSET P)
  BY <1>1
<1>3. Joined(d, P) = k[P]
  BY DEF Joined, FoldSet, MapThenFoldSet, Joins
<1> HIDE DEF k
<1> DEFINE F == {T \in SUBSET P : /\ k[T] \in [D -> L]
                                  /\ \A S : Respects(k[T], S) <=> Respects(d, S) /\ Linked(T, S)}
<1>4. ASSUME NEW T \in SUBSET P, \A U \in SUBSET T : U # T => U \in F PROVE T \in F
  <2>1. CASE T = {}
    <3>1. k[T] = d /\ \A S : Linked(T, S)
      BY <1>2, <2>1 DEF Joins, Linked
    <3> QED
      BY <3>1
  <2>2. CASE T # {}
    <3> DEFINE p == CHOOSE p \in T : TRUE
               rest == T \ {p}
    <3>1. p \in T /\ p[1] \in D /\ p[2] \in D
      BY <2>2
    <3>2. rest \in F
      BY <1>4, <3>1
    <3>3. k[T] = Union(k[rest], p[1], p[2])
      BY <1>2, <2>2 DEF Joins
    <3> HIDE DEF p
    <3>4. ASSUME NEW S PROVE Linked(T, S) <=> Linked(rest, S) /\ (p[1] \in S <=> p[2] \in S)
      BY <3>1 DEF Linked
    <3>5. k[rest] \in [D -> L]
      BY <3>2
    <3>6. ASSUME NEW S
          PROVE  /\ k[T] \in [D -> L]
                 /\ Respects(k[T], S) <=> Respects(d, S) /\ Linked(T, S)
      <4>1. Respects(k[rest], S) <=> Respects(d, S) /\ Linked(rest, S)
        BY <3>2
      <4>2. /\ k[T] \in [D -> L]
            /\ Respects(k[T], S) <=> Respects(k[rest], S) /\ (p[1] \in S <=> p[2] \in S)
        <5> DEFINE a == p[1]
                   b == p[2]
                   e == k[rest]
        <5>1. a \in D /\ b \in D /\ e \in [D -> L] /\ k[T] = Union(e, a, b)
          BY <3>1, <3>3, <3>5
        <5> HIDE DEF a, b, e
        <5>2. /\ Union(e, a, b) \in [D -> L]
              /\ Respects(Union(e, a, b), S) <=> Respects(e, S) /\ (a \in S <=> b \in S)
          BY <5>1, UnionRespects
        <5> QED
          BY <5>1, <5>2 DEF a, b, e
      <4> QED
        BY <3>4, <4>1, <4>2
    <3> QED
      BY <3>6
  <2> QED
    BY <2>1, <2>2
<1> HIDE DEF F
<1>5. \A T \in SUBSET P : T \in F
  BY <1>4, SetInduct
<1>6. P \in F
  BY <1>5
<1> QED
  BY <1>3, <1>6 DEF F

\* Labels all different respect every set.
LEMMA ApartRespects ==
  ASSUME NEW D, NEW S
  PROVE  Apart(D) \in [D -> D] /\ Respects(Apart(D), S)
BY DEF Apart, Respects

\* The values of a function on a finite set are finitely many.
LEMMA FiniteImage ==
  ASSUME NEW S, IsFiniteSet(S), NEW f
  PROVE  IsFiniteSet({f[s] : s \in S})
<1> DEFINE T == {f[s] : s \in S}
           g == [s \in S |-> f[s]]
<1>1. g \in Surjection(S, T)
  BY DEF Surjection
<1> QED
  BY <1>1, FS_Surjection

-----------------------------------------------------------------------------
(* A list in order: where each element is.                                 *)

\* How many are not after it.
RankIn(S, s) == Cardinality({t \in S : t <= s})

\* The place of a number in a set is how many are not after it.
LEMMA Ranks ==
  ASSUME NEW S \in SUBSET Int, IsFiniteSet(S)
  PROVE  [s \in S |-> RankIn(S, s)] \in Bijection(S, 1..Cardinality(S))
<1> DEFINE r == [s \in S |-> RankIn(S, s)]
           upTo(s) == {t \in S : t <= s}
<1>1. Cardinality(S) \in Nat /\ \A s \in S : s \in Int
  BY FS_CardinalityType
<1>2. ASSUME NEW s \in S
      PROVE  /\ IsFiniteSet(upTo(s)) /\ r[s] = Cardinality(upTo(s))
             /\ r[s] \in 1..Cardinality(S) /\ r[s] \in Int
  <2>1. IsFiniteSet(upTo(s)) /\ Cardinality(upTo(s)) <= Cardinality(S)
    BY FS_Subset
  <2>2. Cardinality(upTo(s)) \in Nat /\ upTo(s) # {}
    BY <2>1, FS_CardinalityType
  <2>3. Cardinality(upTo(s)) # 0
    BY <2>1, <2>2, FS_EmptySet
  <2>4. r[s] = Cardinality(upTo(s))
    BY DEF RankIn
  <2> QED
    BY <1>1, <2>1, <2>2, <2>3, <2>4
<1>3. ASSUME NEW s \in S, NEW t \in S, s < t PROVE r[s] < r[t]
  <2>1. \A w \in S : w <= s => w <= t
    BY <1>1, <1>3
  <2>2. t <= t /\ ~(t <= s)
    BY <1>1, <1>3
  <2> DEFINE A == upTo(s)
             B == upTo(t)
  <2>3. /\ IsFiniteSet(B) /\ A \in SUBSET B /\ A # B
        /\ r[s] = Cardinality(A) /\ r[t] = Cardinality(B)
        /\ r[s] \in Int /\ r[t] \in Int
    <3>1. A \in SUBSET B /\ A # B
      BY <2>1, <2>2
    <3> QED
      BY <1>2, <3>1
  <2> HIDE DEF A, B, r
  <2>4. Cardinality(A) <= Cardinality(B) /\ (Cardinality(B) = Cardinality(A) => B = A)
    BY <2>3, FS_Subset
  <2> QED
    BY <2>3, <2>4
<1>4. r \in [S -> 1..Cardinality(S)]
  BY <1>2
<1>5. \A s, t \in S : r[s] = r[t] => s = t
  <2>1. \A s, t \in S : s < t => r[s] # r[t]
    <3>1. \A s \in S : r[s] \in Int
      BY <1>2
    <3> HIDE DEF r
    <3> QED
      BY <1>3, <3>1
  <2> QED
    BY <2>1
<1>6. r \in Injection(S, 1..Cardinality(S))
  BY <1>4, <1>5 DEF Injection, IsInjective
<1>7. IsFiniteSet(1..Cardinality(S)) /\ Cardinality(1..Cardinality(S)) = Cardinality(S)
  BY <1>1, FS_Interval
<1>8. r \in Surjection(S, 1..Cardinality(S))
  BY <1>6, <1>7, FS_Injection
<1> QED
  BY <1>6, <1>8 DEF Bijection

\* A list in order holds each number at its rank.
LEMMA InOrderIs ==
  ASSUME NEW S \in SUBSET Int, IsFiniteSet(S)
  PROVE  /\ InOrder(S) \in [1..Cardinality(S) -> S]
         /\ \A s \in S : RankIn(S, s) \in 1..Cardinality(S) /\ InOrder(S)[RankIn(S, s)] = s
         /\ \A n \in 1..Cardinality(S) : RankIn(S, InOrder(S)[n]) = n
<1> DEFINE N == Cardinality(S)
           Increases(m) == \A i, j \in DOMAIN m : i < j => m[i] < m[j]
           r == [s \in S |-> RankIn(S, s)]
           back == [n \in 1..N |-> CHOOSE s \in S : r[s] = n]
<1>1. /\ N \in Nat /\ r \in [S -> 1..N]
      /\ \A s, t \in S : r[s] = r[t] => s = t
      /\ \A n \in 1..N : \E s \in S : r[s] = n
      /\ \A s \in S : s \in Int
  BY Ranks, FS_CardinalityType DEF Bijection, Injection, IsInjective, Surjection
<1>2. \A n \in 1..N : back[n] \in S /\ back[n] \in Int /\ r[back[n]] = n
  BY <1>1
<1>3. ASSUME NEW i \in 1..N, NEW j \in 1..N, i < j PROVE back[i] < back[j]
  <2>0. back[i] \in Int /\ back[j] \in Int
    BY <1>2
  <2> HIDE DEF back
  <2> SUFFICES ASSUME back[j] <= back[i] PROVE FALSE
    BY <2>0
  <2> DEFINE A == {t \in S : t <= back[j]}
             B == {t \in S : t <= back[i]}
  <2>1. A \in SUBSET B /\ B \in SUBSET S
    <3>1. ASSUME NEW t \in S, t <= back[j] PROVE t <= back[i]
      <4>1. t \in Int
        BY <1>1
      <4> QED
        BY <2>0, <3>1, <4>1
    <3> QED
      BY <3>1
  <2>2. IsFiniteSet(B)
    BY <2>1, FS_Subset
  <2>3. Cardinality(A) <= Cardinality(B)
    BY <2>1, <2>2, FS_Subset
  <2>4. Cardinality(A) = j /\ Cardinality(B) = i
    BY <1>2 DEF RankIn
  <2> QED
    BY <1>1, <1>3, <2>3, <2>4
<1>4. back \in [1..N -> S] /\ Increases(back)
  BY <1>2, <1>3
<1> HIDE DEF back
<1> DEFINE l == InOrder(S)
<1>5. l \in [1..N -> S] /\ Increases(l)
  BY <1>4 DEF InOrder
<1> HIDE DEF l
<1>6. \A i, j \in 1..N : l[i] = l[j] => i = j
  <2>1. \A i, j \in 1..N : i < j => l[i] < l[j]
    BY <1>5
  <2>2. \A i \in 1..N : l[i] \in Int
    BY <1>5
  <2>3. \A i, j \in 1..N : i < j => l[i] # l[j]
    BY <2>1, <2>2
  <2> QED
    BY <1>1, <2>3
<1>7. \A s \in S : \E i \in 1..N : l[i] = s
  <2>1. l \in Injection(1..N, S)
    BY <1>5, <1>6 DEF Injection, IsInjective
  <2>2. Cardinality(1..N) = Cardinality(S)
    BY <1>1, FS_Interval
  <2>3. l \in Surjection(1..N, S)
    BY <2>1, <2>2, FS_Injection
  <2> QED
    BY <2>3 DEF Surjection
<1>8. ASSUME NEW n \in 1..N PROVE RankIn(S, l[n]) = n
  <2> DEFINE A == {t \in S : t <= l[n]}
             f == [i \in 1..n |-> l[i]]
  <2>1. \A i \in 1..N : l[i] \in S /\ l[i] \in Int
    BY <1>5
  <2>2. \A i, j \in 1..N : i < j => l[i] < l[j]
    BY <1>5
  <2>3. \A i \in 1..n : i \in 1..N /\ l[i] \in A
    <3> SUFFICES ASSUME NEW i \in 1..n PROVE i \in 1..N /\ l[i] <= l[n]
      BY <2>1
    <3>1. i \in 1..N /\ n \in 1..N /\ (i < n \/ i = n)
      BY <1>1
    <3> QED
      BY <2>1, <2>2, <3>1
  <2>4. \A t \in A : \E i \in 1..n : l[i] = t
    <3> SUFFICES ASSUME NEW t \in A PROVE \E i \in 1..n : l[i] = t
      OBVIOUS
    <3>1. PICK i \in 1..N : l[i] = t
      BY <1>7
    <3>2. ~(n < i)
      <4> SUFFICES ASSUME n < i PROVE FALSE
        OBVIOUS
      <4>1. l[n] < l[i]
        BY <2>2
      <4> QED
        BY <2>1, <3>1, <4>1
    <3> QED
      BY <1>1, <3>1, <3>2
  <2> HIDE DEF A
  <2>5. f \in Bijection(1..n, A)
    BY <1>6, <2>3, <2>4 DEF Bijection, Injection, IsInjective, Surjection
  <2>6. IsFiniteSet(1..n) /\ Cardinality(1..n) = n
    BY <1>1, FS_Interval
  <2>7. Cardinality(A) = n
    BY <2>5, <2>6, FS_Bijection DEF ExistsBijection
  <2> QED
    BY <2>7 DEF A, RankIn
<1>9. ASSUME NEW s \in S PROVE RankIn(S, s) \in 1..N /\ l[RankIn(S, s)] = s
  <2>1. PICK i \in 1..N : l[i] = s
    BY <1>7
  <2> QED
    BY <1>8, <2>1
<1> QED
  BY <1>5, <1>8, <1>9 DEF l

-----------------------------------------------------------------------------
(* The switched network.                                                   *)

\* The switches that are branches.
BranchSwitches == {s \in model.retained : ~Degenerate(s)}

\* The branches are those of the retained switches, in order, and stand where
\* the calls have put them.
Stands(s) ==
  /\ branches[BranchOf(s)].ends = <<From(s), To(s)>>
  /\ branches[BranchOf(s)].closed = (s \notin position)
BranchesAgree ==
  /\ branches \in [1..Cardinality(BranchSwitches) -> [ends : Buses \X Buses, closed : BOOLEAN]]
  /\ \A s \in BranchSwitches : Stands(s)

\* The components across the closed switches, of the constrained solve.
Across == Joined(Components, {<<From(s), To(s)>> : s \in ClosedSwitches})

\* What is kept between calls: the branches, and the components if there are any,
\* agree with the positions, the last result is of these positions, and no call
\* has moved a switch that is not retained.
SwitchInv ==
  /\ model \in Models /\ bus = Merged(model)
  /\ \A s \in Switches \ model.retained : s \in position <=> s \in model.open
  /\ IF model.constrained THEN branches = <<>> ELSE BranchesAgree
  /\ partition \in {NotYet, Components}
  /\ result # NotYet =>
       IF model.constrained
       THEN /\ result.live = Live(Across)
            /\ \A half \in Halves :
                 result.rows[half] = Tied(Fixed(half, result.live), ClosedSwitches)
       ELSE result.live = Live(Components)

\* The switches are numbers, their ends nodes, and a set is respected by the buses
\* when no merged switch leaves it.
LEMMA SwitchTypes ==
  ASSUME model \in Models, bus = Merged(model)
  PROVE  /\ Switches = 1..Len(SwitchEnds) /\ Len(SwitchEnds) \in Nat /\ IsFiniteSet(Switches)
         /\ \A s \in Switches : SwitchEnds[s] \in Nodes \X Nodes
         /\ model.retained \subseteq Switches
         /\ bus \in [Nodes -> Nodes]
         /\ \A n \in Nodes : bus[n] \in Buses
         /\ \A s \in Switches : From(s) \in Buses /\ To(s) \in Buses
         /\ \A S : Respects(bus, S)
                     <=> Linked(EndsOf({s \in Switches : s \notin model.retained
                                                          /\ Conducting(model, s)}), S)
<1>1. Switches = 1..Len(SwitchEnds) /\ Len(SwitchEnds) \in Nat
  BY SwitchingAssumption DEF Switches
<1>2. IsFiniteSet(Switches)
  BY <1>1, FS_Interval
<1>3. \A s \in Switches : SwitchEnds[s] \in Nodes \X Nodes
  BY SwitchingAssumption DEF Switches
<1>4. model.retained \subseteq Switches
  BY SwitchingAssumption DEF Models
<1> DEFINE merged == {s \in Switches : s \notin model.retained /\ Conducting(model, s)}
<1>5. /\ IsFiniteSet(EndsOf(merged))
      /\ \A p \in EndsOf(merged) : p[1] \in Nodes /\ p[2] \in Nodes
  <2>1. IsFiniteSet(merged)
    BY <1>2, FS_Subset
  <2>2. IsFiniteSet(EndsOf(merged))
    <3> HIDE DEF merged
    <3> QED
      BY <2>1, FiniteImage DEF EndsOf
  <2> QED
    BY <1>3, <2>2 DEF EndsOf
<1>6. bus = Joined(Apart(Nodes), EndsOf(merged))
  BY DEF Merged
<1> HIDE DEF merged
<1>7. /\ bus \in [Nodes -> Nodes]
      /\ \A S : Respects(bus, S) <=> Linked(EndsOf(merged), S)
  <2> DEFINE pairs == EndsOf(merged)
             d == Apart(Nodes)
  <2>1. d \in [Nodes -> Nodes] /\ \A S : Respects(d, S)
    BY ApartRespects
  <2>2. IsFiniteSet(pairs) /\ (\A p \in pairs : p[1] \in Nodes /\ p[2] \in Nodes)
        /\ bus = Joined(d, pairs)
    BY <1>5, <1>6
  <2> HIDE DEF pairs, d
  <2>3. /\ Joined(d, pairs) \in [Nodes -> Nodes]
        /\ \A S : Respects(Joined(d, pairs), S) <=> Respects(d, S) /\ Linked(pairs, S)
    BY <2>1, <2>2, JoinedRespects
  <2> QED
    BY <2>1, <2>2, <2>3 DEF pairs
<1>8. \A n \in Nodes : bus[n] \in Buses
  BY DEF Buses
<1>9. \A s \in Switches : From(s) \in Buses /\ To(s) \in Buses
  BY <1>3, <1>8 DEF From, To
<1> QED
  BY <1>1, <1>2, <1>3, <1>4, <1>7, <1>8, <1>9 DEF merged

\* BranchOf finds the place a switch was stamped at.
LEMMA BranchIs ==
  ASSUME model \in Models, bus = Merged(model)
  PROVE  /\ BranchSwitches \in SUBSET Int /\ IsFiniteSet(BranchSwitches)
         /\ Cardinality(BranchSwitches) \in Nat
         /\ \A s \in BranchSwitches : /\ BranchOf(s) \in 1..Cardinality(BranchSwitches)
                               /\ InOrder(BranchSwitches)[BranchOf(s)] = s
         /\ InOrder(BranchSwitches) \in [1..Cardinality(BranchSwitches) -> BranchSwitches]
         /\ \A n \in 1..Cardinality(BranchSwitches) : BranchOf(InOrder(BranchSwitches)[n]) = n
<1>1. /\ Switches \in SUBSET Int /\ IsFiniteSet(Switches) /\ BranchSwitches \in SUBSET Switches
  BY SwitchTypes DEF BranchSwitches
<1>2. /\ BranchSwitches \in SUBSET Int /\ IsFiniteSet(BranchSwitches)
  BY <1>1, FS_Subset
<1>3. ASSUME NEW s PROVE BranchOf(s) = RankIn(BranchSwitches, s)
  <2>1. {t \in model.retained : t <= s /\ ~Degenerate(t)} = {t \in BranchSwitches : t <= s}
    BY DEF BranchSwitches
  <2> QED
    BY <2>1 DEF BranchOf, RankIn
<1>4. Cardinality(BranchSwitches) \in Nat
  BY <1>2, FS_CardinalityType
<1> HIDE DEF BranchSwitches
<1>5. /\ \A s \in BranchSwitches : /\ RankIn(BranchSwitches, s) \in 1..Cardinality(BranchSwitches)
                           /\ InOrder(BranchSwitches)[RankIn(BranchSwitches, s)] = s
      /\ InOrder(BranchSwitches) \in [1..Cardinality(BranchSwitches) -> BranchSwitches]
      /\ \A n \in 1..Cardinality(BranchSwitches) : RankIn(BranchSwitches, InOrder(BranchSwitches)[n]) = n
  BY <1>2, InOrderIs
<1> QED
  BY <1>2, <1>3, <1>4, <1>5

\* The pairs of ends of some switches link a set when no switch leaves it.
LEMMA EndsLink ==
  ASSUME NEW A \in SUBSET Switches, NEW T
  PROVE  Linked({<<From(s), To(s)>> : s \in A}, T)
           <=> \A s \in A : From(s) \in T <=> To(s) \in T
<1> DEFINE P == {<<From(s), To(s)>> : s \in A}
<1>1. ASSUME Linked(P, T), NEW s \in A PROVE From(s) \in T <=> To(s) \in T
  <2> DEFINE p == <<From(s), To(s)>>
  <2>1. p \in P /\ p[1] = From(s) /\ p[2] = To(s)
    OBVIOUS
  <2> HIDE DEF p, P
  <2> QED
    BY <1>1, <2>1 DEF Linked
<1>2. ASSUME \A s \in A : From(s) \in T <=> To(s) \in T, NEW p \in P
      PROVE  p[1] \in T <=> p[2] \in T
  <2>1. PICK s \in A : p = <<From(s), To(s)>>
    OBVIOUS
  <2>2. p[1] = From(s) /\ p[2] = To(s)
    BY <2>1
  <2> QED
    BY <1>2, <2>2
<1> QED
  BY <1>1, <1>2 DEF Linked

\* The components of the Y-bus: the lines, and the branches that are closed.
LEMMA ComponentsRespect ==
  ASSUME model \in Models, bus = Merged(model),
         IF model.constrained THEN branches = <<>> ELSE BranchesAgree
  PROVE  /\ Components \in [Buses -> Buses]
         /\ \A T : Respects(Components, T)
                     <=> /\ Linked(Lines, T)
                         /\ ~model.constrained =>
                              \A s \in model.retained \ position : From(s) \in T <=> To(s) \in T
<1> DEFINE closedEnds == {branches[n].ends : n \in Closed}
<1>1. IsFiniteSet(Lines) /\ \A p \in Lines : p[1] \in Buses /\ p[2] \in Buses
  <2> DEFINE f == [p \in Feeders |-> <<bus[p[1]], bus[p[2]]>>]
  <2>1. Lines = {f[p] : p \in Feeders}
    BY DEF Lines
  <2>2. IsFiniteSet({f[p] : p \in Feeders})
    <3> HIDE DEF f
    <3> QED
      BY SwitchingAssumption, FiniteImage
  <2>3. \A p \in Feeders : p[1] \in Nodes /\ p[2] \in Nodes
    BY SwitchingAssumption
  <2>4. \A p \in Lines : p[1] \in Buses /\ p[2] \in Buses
    BY <2>3, SwitchTypes DEF Lines
  <2> QED
    BY <2>1, <2>2, <2>4
<1>2. ASSUME ~model.constrained
      PROVE  /\ IsFiniteSet(closedEnds) /\ \A p \in closedEnds : p[1] \in Buses /\ p[2] \in Buses
             /\ closedEnds = {<<From(s), To(s)>> : s \in BranchSwitches \ position}
  <2>1. BranchesAgree
    BY <1>2
  <2>2. Closed = {n \in 1..Cardinality(BranchSwitches) : branches[n].closed}
    BY <2>1 DEF Closed, BranchesAgree
  <2>3. IsFiniteSet(Closed)
    <3>1. IsFiniteSet(1..Cardinality(BranchSwitches)) /\ Closed \in SUBSET (1..Cardinality(BranchSwitches))
      BY <2>2, FS_Interval, BranchIs
    <3> QED
      BY <3>1, FS_Subset
  <2>4. IsFiniteSet(closedEnds)
    <3> DEFINE f == [n \in Closed |-> branches[n].ends]
    <3>1. closedEnds = {f[n] : n \in Closed}
      OBVIOUS
    <3>2. IsFiniteSet({f[n] : n \in Closed})
      <4> HIDE DEF f
      <4> QED
        BY <2>3, FiniteImage
    <3> QED
      BY <3>1, <3>2
  <2>5. \A n \in Closed : branches[n].ends \in Buses \X Buses
    BY <2>1, <2>2 DEF BranchesAgree
  <2>6. ASSUME NEW n \in Closed
        PROVE  \E s \in BranchSwitches \ position : branches[n].ends = <<From(s), To(s)>>
    <3> DEFINE s == InOrder(BranchSwitches)[n]
    <3>1. n \in 1..Cardinality(BranchSwitches) /\ branches[n].closed
      BY <2>2
    <3>2. s \in BranchSwitches /\ BranchOf(s) = n
      BY <3>1, BranchIs
    <3> HIDE DEF s
    <3>3. branches[n].ends = <<From(s), To(s)>> /\ branches[n].closed = (s \notin position)
      <4>1. Stands(s)
        BY <2>1, <3>2 DEF BranchesAgree
      <4> QED
        BY <3>2, <4>1 DEF Stands
    <3>4. s \notin position
      BY <3>1, <3>3
    <3> QED
      BY <3>2, <3>3, <3>4
  <2>7. ASSUME NEW s \in BranchSwitches \ position
        PROVE  \E n \in Closed : branches[n].ends = <<From(s), To(s)>>
    <3>1. BranchOf(s) \in 1..Cardinality(BranchSwitches)
      BY BranchIs
    <3>2. branches[BranchOf(s)].closed /\ branches[BranchOf(s)].ends = <<From(s), To(s)>>
      BY <2>1 DEF BranchesAgree, Stands
    <3> QED
      BY <2>2, <3>1, <3>2
  <2>8. closedEnds = {<<From(s), To(s)>> : s \in BranchSwitches \ position}
    BY <2>6, <2>7
  <2>9. \A p \in closedEnds : p[1] \in Buses /\ p[2] \in Buses
    BY <2>5
  <2> QED
    BY <2>4, <2>8, <2>9
<1>3. ASSUME model.constrained PROVE closedEnds = {} /\ IsFiniteSet(closedEnds)
  <2>1. branches = <<>>
    BY <1>3
  <2>2. Closed = {}
    BY <2>1 DEF Closed
  <2> QED
    BY <2>2, FS_EmptySet
<1> DEFINE pairs == Lines \cup closedEnds
<1>4. IsFiniteSet(pairs) /\ \A p \in pairs : p[1] \in Buses /\ p[2] \in Buses
  <2>1. IsFiniteSet(closedEnds) /\ \A p \in closedEnds : p[1] \in Buses /\ p[2] \in Buses
    BY <1>2, <1>3
  <2> HIDE DEF closedEnds
  <2> QED
    BY <1>1, <2>1, FS_Union
<1>5. Components = Joined(Apart(Buses), pairs)
  BY DEF Components
<1> HIDE DEF pairs
<1>6. /\ Components \in [Buses -> Buses]
      /\ \A T : Respects(Components, T) <=> Linked(pairs, T)
  BY <1>4, <1>5, ApartRespects, JoinedRespects
<1> USE DEF pairs
<1>7. ASSUME NEW T
      PROVE  Linked(pairs, T)
               <=> /\ Linked(Lines, T)
                   /\ ~model.constrained =>
                        \A s \in model.retained \ position : From(s) \in T <=> To(s) \in T
  <2>1. Linked(pairs, T) <=> Linked(Lines, T) /\ Linked(closedEnds, T)
    BY DEF Linked
  <2>2. CASE model.constrained
    BY <1>3, <2>1, <2>2 DEF Linked
  <2>3. CASE ~model.constrained
    <3>1. BranchSwitches \ position \in SUBSET Switches
      BY SwitchTypes DEF BranchSwitches
    <3>2. Linked(closedEnds, T) <=> \A s \in BranchSwitches \ position : From(s) \in T <=> To(s) \in T
      BY <1>2, <2>3, <3>1, EndsLink
    <3>3. (\A s \in BranchSwitches \ position : From(s) \in T <=> To(s) \in T)
            <=> \A s \in model.retained \ position : From(s) \in T <=> To(s) \in T
      BY DEF BranchSwitches, Degenerate
    <3> QED
      BY <2>1, <2>3, <3>2, <3>3
  <2> QED
    BY <2>2, <2>3
<1> HIDE DEF pairs
<1> QED
  BY <1>6, <1>7

\* What a solve takes for one island: what the lines and the closed retained
\* switches connect.
Islands(d) ==
  /\ d \in [Buses -> Buses]
  /\ \A T : Respects(d, T)
              <=> /\ Linked(Lines, T)
                  /\ \A s \in model.retained \ position : From(s) \in T <=> To(s) \in T

\* The components a solve uses are the islands at the present positions.
LEMMA SolvedIslands ==
  ASSUME model \in Models, bus = Merged(model),
         IF model.constrained THEN branches = <<>> ELSE BranchesAgree
  PROVE  IF model.constrained THEN Islands(Across) ELSE Islands(Components)
<1>1. /\ Components \in [Buses -> Buses]
      /\ \A T : Respects(Components, T)
                  <=> /\ Linked(Lines, T)
                      /\ ~model.constrained =>
                           \A s \in model.retained \ position : From(s) \in T <=> To(s) \in T
  BY ComponentsRespect
<1>2. CASE ~model.constrained
  BY <1>1, <1>2 DEF Islands
<1>3. CASE model.constrained
  <2> DEFINE pairs == {<<From(s), To(s)>> : s \in ClosedSwitches}
             d == Components
  <2>1. ClosedSwitches \in SUBSET Switches /\ ClosedSwitches = model.retained \ position
    BY SwitchTypes DEF ClosedSwitches
  <2>2. IsFiniteSet(pairs)
    <3> DEFINE f == [s \in ClosedSwitches |-> <<From(s), To(s)>>]
    <3>1. IsFiniteSet(ClosedSwitches)
      BY <2>1, SwitchTypes, FS_Subset
    <3>2. pairs = {f[s] : s \in ClosedSwitches}
      OBVIOUS
    <3>3. IsFiniteSet({f[s] : s \in ClosedSwitches})
      <4> HIDE DEF f
      <4> QED
        BY <3>1, FiniteImage
    <3> QED
      BY <3>2, <3>3
  <2>3. \A p \in pairs : p[1] \in Buses /\ p[2] \in Buses
    BY <2>1, SwitchTypes
  <2>4. \A T : Linked(pairs, T)
                 <=> \A s \in model.retained \ position : From(s) \in T <=> To(s) \in T
    BY <2>1, EndsLink
  <2>5. Across = Joined(d, pairs) /\ d \in [Buses -> Buses]
    BY <1>1 DEF Across
  <2>6. \A T : Respects(d, T) <=> Linked(Lines, T)
    BY <1>1, <1>3
  <2> HIDE DEF pairs, d
  <2>7. /\ Joined(d, pairs) \in [Buses -> Buses]
        /\ \A T : Respects(Joined(d, pairs), T) <=> Respects(d, T) /\ Linked(pairs, T)
    BY <2>2, <2>3, <2>5, JoinedRespects
  <2>8. Islands(Across)
    BY <2>4, <2>5, <2>6, <2>7 DEF Islands
  <2> QED
    BY <1>3, <2>8
<1> QED
  BY <1>2, <1>3

\* As imported.
LEMMA SwitchInitInv == SwitchingInit => SwitchInv
<1> SUFFICES ASSUME SwitchingInit PROVE SwitchInv
  OBVIOUS
<1>1. /\ model \in Models /\ bus = Merged(model) /\ position = model.open
      /\ branches = IF model.constrained THEN <<>> ELSE Regularized
      /\ partition = NotYet /\ result = NotYet
  BY DEF SwitchingInit
<1>2. ASSUME ~model.constrained PROVE BranchesAgree
  <2> DEFINE list1 == InOrder(BranchSwitches)
             N == Cardinality(BranchSwitches)
  <2>1. /\ list1 \in [1..N -> BranchSwitches] /\ N \in Nat
        /\ \A s \in BranchSwitches : BranchOf(s) \in 1..N /\ list1[BranchOf(s)] = s
    BY <1>1, BranchIs
  <2>2. branches = [n \in 1..N |-> [ends |-> <<From(list1[n]), To(list1[n])>>,
                                   closed |-> list1[n] \notin position]]
    BY <1>1, <1>2, <2>1 DEF Regularized, BranchSwitches
  <2>3. \A n \in 1..N : From(list1[n]) \in Buses /\ To(list1[n]) \in Buses
    BY <1>1, <2>1, SwitchTypes DEF BranchSwitches
  <2> HIDE DEF list1, N
  <2>4. branches \in [1..N -> [ends : Buses \X Buses, closed : BOOLEAN]]
    BY <2>2, <2>3
  <2>5. ASSUME NEW s \in BranchSwitches PROVE Stands(s)
    <3>1. BranchOf(s) \in 1..N /\ list1[BranchOf(s)] = s
      BY <2>1
    <3> QED
      BY <2>2, <3>1 DEF Stands
  <2> QED
    BY <2>4, <2>5 DEF BranchesAgree, N
<1> QED
  BY <1>1, <1>2 DEF SwitchInv

\* What does not change while neither the model nor the buses do.
LEMMA SameNetwork ==
  ASSUME UNCHANGED <<model, bus>>
  PROVE  /\ Buses' = Buses /\ Lines' = Lines /\ BranchSwitches' = BranchSwitches
         /\ \A s : /\ From(s)' = From(s) /\ To(s)' = To(s) /\ BranchOf(s)' = BranchOf(s)
                   /\ HasBranch(s)' = HasBranch(s)
BY DEF Buses, Lines, BranchSwitches, From, To, BranchOf, HasBranch, Degenerate

\* A call or a solve keeps it: set_switch drops the components.
LEMMA SwitchStep == SwitchInv /\ [SwitchingNext]_switchvars => SwitchInv'
<1> SUFFICES ASSUME SwitchInv, [SwitchingNext]_switchvars PROVE SwitchInv'
  OBVIOUS
<1>1. /\ model \in Models /\ bus = Merged(model)
      /\ IF model.constrained THEN branches = <<>> ELSE BranchesAgree
      /\ partition \in {NotYet, Components}
  BY DEF SwitchInv
<1>2. UNCHANGED <<model, dead, bus>>
  BY DEF SwitchingNext, SetSwitch, Solve, SolveConstrained, switchvars
<1>3. ASSUME UNCHANGED <<branches, position>>
      PROVE  /\ (IF model.constrained THEN branches = <<>> ELSE BranchesAgree)'
             /\ (\A s \in Switches \ model.retained : s \in position <=> s \in model.open)'
             /\ Components' = Components /\ ClosedSwitches' = ClosedSwitches
             /\ Across' = Across
             /\ \A d : Live(d)' = Live(d)
             /\ \A half, live : Fixed(half, live)' = Fixed(half, live)
             /\ \A fixed, closed : Tied(fixed, closed)' = Tied(fixed, closed)
  <2>1. /\ Buses' = Buses /\ Lines' = Lines /\ BranchSwitches' = BranchSwitches
        /\ \A s : From(s)' = From(s) /\ To(s)' = To(s) /\ BranchOf(s)' = BranchOf(s)
    BY <1>2, SameNetwork
  <2>2. (IF model.constrained THEN branches = <<>> ELSE BranchesAgree)'
    BY <1>1, <1>2, <1>3, <2>1 DEF BranchesAgree, Stands
  <2>3. Components' = Components
    BY <1>2, <1>3, <2>1 DEF Components, Closed
  <2>4. ClosedSwitches' = ClosedSwitches
    BY <1>2, <1>3 DEF ClosedSwitches
  <2>5. Across' = Across
    BY <2>1, <2>3, <2>4 DEF Across
  <2>6. \A d : Live(d)' = Live(d)
    BY <1>2, <2>1 DEF Live, Holds
  <2>7. \A half, live : Fixed(half, live)' = Fixed(half, live)
    BY <1>2, <2>1 DEF Fixed, Holds
  <2>8. \A fixed, closed : Tied(fixed, closed)' = Tied(fixed, closed)
    BY <1>2, <2>1 DEF Tied, TieOrPin, Seeded, From, To
  <2>9. (\A s \in Switches \ model.retained : s \in position <=> s \in model.open)'
    BY <1>2, <1>3 DEF SwitchInv
  <2> QED
    BY <2>2, <2>3, <2>4, <2>5, <2>6, <2>7, <2>8, <2>9
<1>4. CASE UNCHANGED switchvars
  <2>1. UNCHANGED <<branches, position>> /\ partition' = partition /\ result' = result
    BY <1>4 DEF switchvars
  <2> QED
    BY <1>1, <1>2, <1>3, <2>1 DEF SwitchInv
<1>5. CASE SetSwitch
  <2>1. PICK s \in Switches, open \in BOOLEAN :
          /\ HasBranch(s)
          /\ branches' = [branches EXCEPT ![BranchOf(s)].closed = ~open]
          /\ position' = IF open THEN position \cup {s} ELSE position \ {s}
          /\ partition' = AfterSwitching
          /\ result' = NotYet
    BY <1>5 DEF SetSwitch
  <2>2. /\ ~model.constrained /\ BranchesAgree /\ s \in BranchSwitches
    BY <1>1, <2>1 DEF HasBranch, BranchSwitches
  <2>3. BranchesAgree'
    <3> DEFINE N == Cardinality(BranchSwitches)
               Branch == [ends : Buses \X Buses, closed : BOOLEAN]
               here == BranchOf(s)
    <3>1. /\ branches \in [1..N -> Branch] /\ N \in Nat /\ here \in 1..N
          /\ \A t \in BranchSwitches : Stands(t) /\ BranchOf(t) \in 1..N
          /\ \A t \in BranchSwitches : BranchOf(t) = here => t = s
      BY <1>1, <2>2, BranchIs DEF BranchesAgree
    <3>2. /\ branches[here] \in Branch
          /\ branches' = [branches EXCEPT ![here] = [branches[here] EXCEPT !.closed = ~open]]
      BY <2>1, <3>1
    <3>3. /\ [branches[here] EXCEPT !.closed = ~open] \in Branch
          /\ [branches[here] EXCEPT !.closed = ~open].ends = branches[here].ends
          /\ [branches[here] EXCEPT !.closed = ~open].closed = ~open
      BY <3>2
    <3>4. /\ branches' \in [1..N -> Branch]
          /\ branches'[here].ends = branches[here].ends /\ branches'[here].closed = ~open
          /\ \A n \in 1..N : n # here => branches'[n] = branches[n]
      BY <3>1, <3>2, <3>3
    <3>5. ASSUME NEW t \in BranchSwitches PROVE Stands(t)'
      <4>1. /\ branches[BranchOf(t)].ends = <<From(t), To(t)>>
            /\ branches[BranchOf(t)].closed = (t \notin position)
        BY <3>1 DEF Stands
      <4>2. CASE t = s
        <5>1. branches'[BranchOf(t)].ends = <<From(t), To(t)>>
          BY <3>4, <4>1, <4>2
        <5>2. branches'[BranchOf(t)].closed = (t \notin position')
          <6>1. branches'[BranchOf(t)].closed = ~open
            BY <3>4, <4>2
          <6>2. (t \notin position') = ~open
            BY <2>1, <4>2
          <6> QED
            BY <6>1, <6>2
        <5> QED
          BY <1>2, <5>1, <5>2, SameNetwork DEF Stands
      <4>3. CASE t # s
        <5>1. branches'[BranchOf(t)] = branches[BranchOf(t)]
          BY <3>1, <3>4, <4>3
        <5>2. (t \notin position') = (t \notin position)
          BY <2>1, <4>3
        <5> QED
          BY <1>2, <4>1, <5>1, <5>2, SameNetwork DEF Stands
      <4> QED
        BY <4>2, <4>3
    <3> QED
      BY <1>2, <3>4, <3>5, SameNetwork DEF BranchesAgree
  <2>4. (\A t \in Switches \ model.retained : t \in position <=> t \in model.open)'
    <3>1. s \in model.retained
      BY <2>1 DEF HasBranch
    <3> QED
      BY <1>2, <2>1, <3>1 DEF SwitchInv
  <2> QED
    BY <1>1, <1>2, <2>1, <2>2, <2>3, <2>4 DEF SwitchInv, AfterSwitching
<1>6. CASE Solve
  <2>1. /\ UNCHANGED <<branches, position>> /\ ~model.constrained
        /\ partition' = IF partition = NotYet THEN Components ELSE partition
        /\ result' = [live |-> Live(partition')]
    BY <1>6 DEF Solve
  <2>2. partition' = Components' /\ result'.live = Live(Components)
    BY <1>1, <1>3, <2>1
  <2> QED
    BY <1>1, <1>2, <1>3, <2>1, <2>2 DEF SwitchInv
<1>7. CASE SolveConstrained
  <2>1. /\ UNCHANGED <<branches, position, partition>> /\ model.constrained
        /\ result'.live = Live(Across)
        /\ result'.rows = [half \in Halves |-> Tied(Fixed(half, Live(Across)), ClosedSwitches)]
    BY <1>7 DEF SolveConstrained, Across
  <2>2. \A half \in Halves :
          result'.rows[half] = Tied(Fixed(half, result'.live), ClosedSwitches)
    BY <2>1
  <2> QED
    BY <1>1, <1>2, <1>3, <2>1, <2>2 DEF SwitchInv
<1> QED
  BY <1>4, <1>5, <1>6, <1>7 DEF SwitchingNext

\* What the code takes for connected at the present positions: a retained switch
\* by its position alone.
TakenForClosed(s) ==
  IF s \in model.retained THEN s \notin position ELSE Conducting(model, s)
LinksNow == Feeders \cup EndsOf({s \in Switches : TakenForClosed(s)})

\* Buses that no line or closed switch leaves are nodes that no link leaves.
LEMMA BusesAndNodes ==
  ASSUME model \in Models, bus = Merged(model), NEW d, Islands(d), NEW T
  PROVE  Respects(d, T) <=> Linked(LinksNow, {n \in Nodes : bus[n] \in T})
<1> DEFINE S == {n \in Nodes : bus[n] \in T}
           merged == {s \in Switches : s \notin model.retained /\ Conducting(model, s)}
<1>1. \A p \in Feeders : p[1] \in Nodes /\ p[2] \in Nodes
  BY SwitchingAssumption
<1>2. \A s \in Switches : SwitchEnds[s][1] \in Nodes /\ SwitchEnds[s][2] \in Nodes
  BY SwitchTypes
<1>3. Linked(Lines, T) <=> Linked(Feeders, S)
  <2>1. ASSUME Linked(Lines, T), NEW p \in Feeders PROVE p[1] \in S <=> p[2] \in S
    <3> DEFINE a == bus[p[1]]
               b == bus[p[2]]
    <3>1. <<a, b>> \in Lines
      BY DEF Lines
    <3>2. <<a, b>>[1] \in T <=> <<a, b>>[2] \in T
      BY <2>1, <3>1 DEF Linked
    <3>3. a \in T <=> b \in T
      BY <3>2
    <3> QED
      BY <1>1, <3>3
  <2>2. ASSUME Linked(Feeders, S), NEW e \in Lines PROVE e[1] \in T <=> e[2] \in T
    <3>1. PICK p \in Feeders : e = <<bus[p[1]], bus[p[2]]>>
      BY DEF Lines
    <3>2. p[1] \in S <=> p[2] \in S
      BY <2>2 DEF Linked
    <3>3. bus[p[1]] \in T <=> bus[p[2]] \in T
      BY <1>1, <3>2
    <3> QED
      BY <3>1, <3>3
  <2> HIDE DEF S
  <2> QED
    BY <2>1, <2>2 DEF Linked
<1>4. Linked(EndsOf(merged), S)
  <2>1. Respects(bus, S)
    BY SwitchTypes DEF Respects
  <2> QED
    BY <2>1, SwitchTypes
<1>5. (\A s \in model.retained \ position : From(s) \in T <=> To(s) \in T)
        <=> Linked(EndsOf(model.retained \ position), S)
  <2>1. model.retained \subseteq Switches
    BY SwitchTypes
  <2>2. \A s \in model.retained : (From(s) \in T <=> SwitchEnds[s][1] \in S)
                                  /\ (To(s) \in T <=> SwitchEnds[s][2] \in S)
    BY <1>2, <2>1 DEF From, To
  <2> HIDE DEF S
  <2> QED
    BY <2>2 DEF Linked, EndsOf
<1>6. Linked(LinksNow, S) <=> /\ Linked(Feeders, S)
                              /\ Linked(EndsOf(merged), S)
                              /\ Linked(EndsOf(model.retained \ position), S)
  <2>1. {s \in Switches : TakenForClosed(s)} = merged \cup (model.retained \ position)
    BY SwitchTypes DEF TakenForClosed
  <2>2. LinksNow = Feeders \cup EndsOf(merged) \cup EndsOf(model.retained \ position)
    BY <2>1 DEF LinksNow, EndsOf
  <2> HIDE DEF S, merged
  <2> QED
    BY <2>2 DEF Linked
<1> HIDE DEF S, merged
<1>7. Respects(d, T) <=> Linked(LinksNow, S)
  BY <1>3, <1>4, <1>5, <1>6 DEF Islands
<1> QED
  BY <1>7 DEF S

\* A bus in an island with a source is a node that every set which holds the
\* sources, and no link leaves, holds: each group of buses is such a set.
LEMMA LiveIsFed ==
  ASSUME model \in Models, bus = Merged(model), NEW d, Islands(d)
  PROVE  {n \in Nodes : bus[n] \in Live(d)} = {n \in Fed(model, LinksNow) : bus[n] \notin dead}
<1> DEFINE sources == {n \in Nodes : model.machine[n] = "slack"}
           merged == {s \in Switches : s \notin model.retained /\ Conducting(model, s)}
<1>0. d \in [Buses -> Buses] /\ \A n \in Nodes : bus[n] \in Buses
  BY SwitchTypes DEF Islands
<1>1. ASSUME NEW n \in Nodes, bus[n] \in Live(d),
             NEW S \in SUBSET Nodes, sources \subseteq S, Linked(LinksNow, S)
      PROVE  n \in S
  <2>1. PICK r \in Buses : d[r] = d[bus[n]] /\ Holds(r, "slack")
    BY <1>1 DEF Live
  <2>2. PICK k \in Nodes : bus[k] = r /\ model.machine[k] = "slack"
    BY <2>1 DEF Holds
  <2>3. Respects(bus, S)
    <3>1. EndsOf(merged) \subseteq LinksNow
      BY DEF LinksNow, EndsOf, TakenForClosed
    <3>2. Linked(EndsOf(merged), S)
      BY <1>1, <3>1 DEF Linked
    <3> QED
      BY <3>2, SwitchTypes
  <2> DEFINE T == {bus[m] : m \in S}
  <2>4. {m \in Nodes : bus[m] \in T} = S
    <3>1. \A u, v \in Nodes : bus[u] = bus[v] => (u \in S <=> v \in S)
      BY <2>3, SwitchTypes DEF Respects
    <3> QED
      BY <3>1
  <2>5. Respects(d, T)
    <3> HIDE DEF T
    <3> QED
      BY <1>1, <2>4, BusesAndNodes
  <2>6. k \in S
    BY <1>1, <2>2
  <2>7. r \in T
    BY <2>2, <2>6
  <2>8. bus[n] \in T
    <3> HIDE DEF T
    <3> QED
      BY <1>0, <2>1, <2>5, <2>7 DEF Respects
  <2> QED
    BY <2>4, <2>8
<1>2. ASSUME NEW n \in Fed(model, LinksNow), bus[n] \notin dead
      PROVE  bus[n] \in Live(d)
  <2> DEFINE T == {b \in Buses : \E r \in Buses : d[r] = d[b] /\ Holds(r, "slack")}
             S == {m \in Nodes : bus[m] \in T}
  <2>1. Respects(d, T)
    BY <1>0 DEF Respects
  <2>2. Linked(LinksNow, S)
    <3> HIDE DEF T
    <3> QED
      BY <2>1, BusesAndNodes
  <2>3. sources \subseteq S
    BY <1>0 DEF Holds
  <2>4. n \in S /\ n \in Nodes
    <3>1. S \in SUBSET Nodes
      OBVIOUS
    <3> HIDE DEF S
    <3> QED
      BY <1>2, <2>2, <2>3, <3>1 DEF Fed
  <2> QED
    BY <1>0, <1>2, <2>4 DEF Live
<1>3. ASSUME NEW n \in Nodes, bus[n] \in Live(d) PROVE n \in Fed(model, LinksNow)
  BY <1>1, <1>3 DEF Fed
<1>4. Live(d) \cap dead = {} /\ Fed(model, LinksNow) \subseteq Nodes
  BY DEF Live, Fed
<1> QED
  BY <1>2, <1>3, <1>4

\* The switches taken for closed are those that conduct, while every retained one
\* out of service is open.
LEMMA TakenAsItConducts ==
  SwitchInv /\ StampedAsItConducts =>
    LinksNow = Feeders \cup EndsOf({s \in Switches : ConductsNow(s)})
<1> SUFFICES ASSUME SwitchInv, StampedAsItConducts, NEW s \in Switches
             PROVE  TakenForClosed(s) <=> ConductsNow(s)
  BY DEF LinksNow
<1>1. CASE s \in model.retained
  BY <1>1 DEF StampedAsItConducts, TakenForClosed, ConductsNow
<1>2. CASE s \notin model.retained
  <2>1. s \in position <=> s \in model.open
    BY <1>2 DEF SwitchInv
  <2> QED
    BY <1>2, <2>1 DEF TakenForClosed, ConductsNow, Conducting
<1> QED
  BY <1>1, <1>2

\* Both solves take the islands for what they are.
LEMMA EnergizedFromInv == SwitchInv => EnergizedAsConnected
<1> SUFFICES ASSUME SwitchInv, result # NotYet
             PROVE  {n \in Nodes : bus[n] \in result.live}
                      = {n \in Fed(model, LinksNow) : bus[n] \notin dead}
  BY TakenAsItConducts DEF EnergizedAsConnected
<1>1. IF model.constrained THEN Islands(Across) ELSE Islands(Components)
  BY SolvedIslands DEF SwitchInv
<1>2. CASE model.constrained
  BY <1>1, <1>2, LiveIsFed DEF SwitchInv
<1>3. CASE ~model.constrained
  BY <1>1, <1>3, LiveIsFed DEF SwitchInv
<1> QED
  BY <1>2, <1>3

\* For any network, sources and switches, whatever was merged or retained and
\* however the switches are operated between solves: a solve takes for energized
\* exactly the nodes that lines and the switches closed and in service connect to
\* a source, except while a retained switch out of service is closed.
THEOREM EnergizedIsConnected == SwitchingSpec => []EnergizedAsConnected
<1>1. SwitchingInit => SwitchInv
  BY SwitchInitInv
<1>2. SwitchInv /\ [SwitchingNext]_switchvars => SwitchInv'
  BY SwitchStep
<1>3. SwitchInv => EnergizedAsConnected
  BY EnergizedFromInv
<1> QED
  BY <1>1, <1>2, <1>3, PTL DEF SwitchingSpec

\* A label of each bus and the switches that tie.
TieState == [label : [Buses -> Buses], tied : SUBSET Switches]

\* What the ties are computed by, over the first switches of the file.
Ties(h, fixed, closed, n) ==
  h = [s \in 0..n |->
         IF s = 0 THEN [label |-> Seeded(fixed), tied |-> {}]
         ELSE IF s \in closed THEN TieOrPin(h[s - 1], s) ELSE h[s - 1]]

\* They exist, switch by switch.
LEMMA TiesExist ==
  ASSUME NEW fixed, NEW closed, NEW n \in Nat
  PROVE  \E h : Ties(h, fixed, closed, n)
<1> DEFINE T == {m \in Nat : \E h : Ties(h, fixed, closed, m)}
<1>1. 0 \in T
  <2> DEFINE h0 == [s \in 0..0 |-> [label |-> Seeded(fixed), tied |-> {}]]
  <2>1. Ties(h0, fixed, closed, 0)
    BY DEF Ties
  <2> QED
    BY <2>1
<1>2. ASSUME NEW m \in T PROVE m + 1 \in T
  <2>1. PICK h : Ties(h, fixed, closed, m)
    OBVIOUS
  <2> DEFINE k == [s \in 0..(m + 1) |->
                     IF s \in 0..m THEN h[s]
                     ELSE IF s \in closed THEN TieOrPin(h[s - 1], s) ELSE h[s - 1]]
  <2>2. ASSUME NEW s \in 0..(m + 1)
        PROVE  k[s] = IF s = 0 THEN [label |-> Seeded(fixed), tied |-> {}]
                      ELSE IF s \in closed THEN TieOrPin(k[s - 1], s) ELSE k[s - 1]
    <3>1. \A i \in 0..m : i \in 0..(m + 1) /\ k[i] = h[i]
      OBVIOUS
    <3>2. CASE s = 0
      <4>1. h[0] = [label |-> Seeded(fixed), tied |-> {}]
        BY <2>1 DEF Ties
      <4> QED
        BY <3>1, <3>2, <4>1
    <3>3. CASE s # 0
      <4>1. s - 1 \in 0..m /\ k[s - 1] = h[s - 1]
        BY <3>1, <3>3
      <4>2. k[s] = IF s \in closed THEN TieOrPin(h[s - 1], s) ELSE h[s - 1]
        <5>1. CASE s \in 0..m
          <6>1. h[s] = IF s \in closed THEN TieOrPin(h[s - 1], s) ELSE h[s - 1]
            BY <2>1, <3>3, <5>1 DEF Ties
          <6> QED
            BY <3>1, <5>1, <6>1
        <5>2. CASE s \notin 0..m
          BY <5>2
        <5> QED
          BY <5>1, <5>2
      <4> QED
        BY <3>3, <4>1, <4>2
    <3> QED
      BY <3>2, <3>3
  <2>3. Ties(k, fixed, closed, m + 1)
    <3>1. k = [s \in 0..(m + 1) |-> k[s]]
      OBVIOUS
    <3> HIDE DEF k
    <3> QED
      BY <2>2, <3>1 DEF Ties
  <2> QED
    BY <2>3
<1>3. T = Nat
  BY <1>1, <1>2, Induct
<1> QED
  BY <1>3

\* seed_fixed: what is fixed starts as one group.
LEMMA SeededRespects ==
  ASSUME NEW fixed \in SUBSET Buses, NEW S
  PROVE  /\ Seeded(fixed) \in [Buses -> Buses]
         /\ Respects(Seeded(fixed), S) <=> SameSide(fixed, S)
<1> DEFINE anchor == CHOOSE b \in fixed : TRUE
           d == Seeded(fixed)
<1>1. fixed # {} => anchor \in fixed
  OBVIOUS
<1>2. d = [b \in Buses |-> IF b \in fixed THEN anchor ELSE b]
  BY DEF Seeded
<1> HIDE DEF anchor, d
<1>3. /\ d \in [Buses -> Buses] /\ DOMAIN d = Buses
      /\ \A b \in Buses : d[b] = IF b \in fixed THEN anchor ELSE b
  BY <1>1, <1>2
<1>4. ASSUME Respects(d, S) PROVE SameSide(fixed, S)
  <2>1. \A u, v \in fixed : u \in S <=> v \in S
    BY <1>3, <1>4 DEF Respects
  <2> QED
    BY <2>1 DEF SameSide
<1>5. ASSUME SameSide(fixed, S) PROVE Respects(d, S)
  <2>1. \A u, v \in Buses : d[u] = d[v] => u = v \/ (u \in fixed /\ v \in fixed)
    BY <1>1, <1>3
  <2>2. \A u, v \in fixed : u \in S <=> v \in S
    BY <1>5 DEF SameSide
  <2> QED
    BY <1>3, <2>1, <2>2 DEF Respects
<1> QED
  BY <1>3, <1>4, <1>5 DEF d

\* A set of buses that only the tie t leaves: the others do not join its ends.
OnlyTie(fixed, ties, t, S) ==
  /\ SameSide(fixed, S)
  /\ \A u \in ties \ {t} : From(u) \in S <=> To(u) \in S
  /\ ~(From(t) \in S <=> To(t) \in S)

\* After the first n switches: the groups are those of what is fixed and the
\* ties, the closed switches seen have their ends in one group, and each tie
\* joins what no other does.
TiesSoFar(acc, fixed, closed, n) ==
  /\ acc \in TieState
  /\ \A t \in acc.tied : t \in closed /\ t <= n
  /\ \A S : Respects(acc.label, S)
              <=> SameSide(fixed, S) /\ \A t \in acc.tied : From(t) \in S <=> To(t) \in S
  /\ \A s \in closed : s <= n => acc.label[From(s)] = acc.label[To(s)]
  /\ \A t \in acc.tied : \E S \in SUBSET Buses : OnlyTie(fixed, acc.tied, t, S)

\* A group moved to the other side.
Flipped(S, A) == (S \ A) \cup (A \ S)

\* One more closed switch: it joins two groups, and then the ties before are still
\* needed (a set that tells one apart is told apart on its side once the group of
\* the switch is moved over), or its ends are in one group already.
LEMMA TieStep ==
  ASSUME model \in Models, bus = Merged(model),
         NEW fixed \in SUBSET Buses, NEW closed \in SUBSET Switches, NEW n \in Nat,
         n + 1 \in closed, NEW acc, TiesSoFar(acc, fixed, closed, n)
  PROVE  TiesSoFar(TieOrPin(acc, n + 1), fixed, closed, n + 1)
<1> DEFINE s == n + 1
           a == From(s)
           b == To(s)
           label == acc.label
<1>1. /\ acc \in TieState /\ label \in [Buses -> Buses] /\ a \in Buses /\ b \in Buses
      /\ s \in Switches /\ acc.tied \in SUBSET Switches
      /\ \A t \in closed : From(t) \in Buses /\ To(t) \in Buses
      /\ \A t \in closed : t \in Int
      /\ \A t \in acc.tied : t \in closed /\ t <= n
  BY SwitchTypes DEF TiesSoFar, TieState
<1>2. \A S : Respects(label, S)
               <=> SameSide(fixed, S) /\ \A t \in acc.tied : From(t) \in S <=> To(t) \in S
  BY DEF TiesSoFar
<1>3. \A t \in closed : t <= n => label[From(t)] = label[To(t)]
  BY DEF TiesSoFar
<1>4. \A t \in closed : t <= s => t <= n \/ t = s
  BY <1>1
<1>5. CASE label[a] = label[b]
  <2>1. TieOrPin(acc, s) = acc
    BY <1>5 DEF TieOrPin
  <2>2. \A t \in closed : t <= s => label[From(t)] = label[To(t)]
    BY <1>3, <1>4, <1>5
  <2>3. \A t \in acc.tied : t <= s
    BY <1>1
  <2> QED
    BY <1>1, <2>1, <2>2, <2>3 DEF TiesSoFar
<1>6. CASE label[a] # label[b]
  <2> DEFINE joined == Union(label, a, b)
             ties == acc.tied \cup {s}
             new == TieOrPin(acc, s)
             A == {c \in Buses : label[c] = label[a]}
  <2>1. new = [label |-> joined, tied |-> ties]
    BY <1>6 DEF TieOrPin
  <2>2. /\ joined \in [Buses -> Buses]
        /\ \A S : Respects(joined, S) <=> Respects(label, S) /\ (a \in S <=> b \in S)
    <3>1. label \in [Buses -> Buses] /\ a \in Buses /\ b \in Buses
      BY <1>1
    <3> HIDE DEF a, b, label
    <3>2. ASSUME NEW S
          PROVE  /\ Union(label, a, b) \in [Buses -> Buses]
                 /\ Respects(Union(label, a, b), S) <=> Respects(label, S) /\ (a \in S <=> b \in S)
      BY <3>1, UnionRespects
    <3> QED
      BY <3>2
  <2>3. s \notin acc.tied
    BY <1>1
  <2>4. new \in TieState /\ \A t \in ties : t \in closed /\ t <= s
    <3>1. ties \in SUBSET Switches
      BY <1>1
    <3>2. \A t \in ties : t \in closed /\ t <= s
      BY <1>1
    <3> HIDE DEF joined, ties, new
    <3> QED
      BY <2>1, <2>2, <3>1, <3>2 DEF TieState
  <2>5. ASSUME NEW S
        PROVE  Respects(joined, S)
                 <=> SameSide(fixed, S) /\ \A t \in ties : From(t) \in S <=> To(t) \in S
    <3>1. (\A t \in ties : From(t) \in S <=> To(t) \in S)
            <=> (\A t \in acc.tied : From(t) \in S <=> To(t) \in S) /\ (a \in S <=> b \in S)
      OBVIOUS
    <3> HIDE DEF joined, ties
    <3> QED
      BY <1>2, <2>2, <3>1
  <2>6. ASSUME NEW t \in closed, t <= s PROVE joined[From(t)] = joined[To(t)]
    <3>1. \A c \in Buses : joined[c] = IF label[c] = label[a] THEN label[b] ELSE label[c]
      BY <1>1 DEF Union
    <3>2. CASE t = s
      BY <1>1, <3>1, <3>2
    <3>3. CASE t <= n
      <4>1. label[From(t)] = label[To(t)]
        BY <1>3, <3>3
      <4> HIDE DEF joined, label, a, b
      <4> QED
        BY <1>1, <3>1, <4>1
    <3> QED
      BY <1>4, <2>6, <3>2, <3>3
  <2>7. /\ A \in SUBSET Buses /\ a \in A /\ b \notin A
        /\ SameSide(fixed, A) /\ \A t \in acc.tied : From(t) \in A <=> To(t) \in A
    <3>1. A \in SUBSET Buses /\ a \in A /\ b \notin A
      BY <1>1, <1>6
    <3>2. Respects(label, A)
      BY <1>1 DEF Respects
    <3> HIDE DEF A
    <3> QED
      BY <1>2, <3>1, <3>2
  <2> HIDE DEF A
  <2>8. OnlyTie(fixed, ties, s, A)
    <3>1. \A u \in ties \ {s} : u \in acc.tied
      OBVIOUS
    <3> QED
      BY <2>7, <3>1 DEF OnlyTie
  <2>9. ASSUME NEW t \in acc.tied
        PROVE  \E S \in SUBSET Buses : OnlyTie(fixed, ties, t, S)
    <3>1. PICK S \in SUBSET Buses : OnlyTie(fixed, acc.tied, t, S)
      BY DEF TiesSoFar
    <3>2. /\ SameSide(fixed, S) /\ ~(From(t) \in S <=> To(t) \in S)
          /\ \A u \in acc.tied \ {t} : From(u) \in S <=> To(u) \in S
      BY <3>1 DEF OnlyTie
    <3>3. \A u \in ties \ {t} : u \in acc.tied \ {t} \/ u = s
      OBVIOUS
    <3>4. CASE a \in S <=> b \in S
      <4>1. \A u \in ties \ {t} : From(u) \in S <=> To(u) \in S
        BY <3>2, <3>3, <3>4
      <4> QED
        BY <3>2, <4>1 DEF OnlyTie
    <3>5. CASE ~(a \in S <=> b \in S)
      <4> DEFINE W == Flipped(S, A)
      <4>1. /\ W \in SUBSET Buses
            /\ \A c : c \in W <=> ~(c \in S <=> c \in A)
        BY <2>7 DEF Flipped
      <4> HIDE DEF W
      <4>2. SameSide(fixed, W)
        BY <2>7, <3>2, <4>1 DEF SameSide
      <4>3. ~(From(t) \in W <=> To(t) \in W)
        BY <2>7, <3>2, <4>1
      <4>4. \A u \in acc.tied \ {t} : From(u) \in W <=> To(u) \in W
        BY <2>7, <3>2, <4>1
      <4>5. a \in W <=> b \in W
        BY <2>7, <3>5, <4>1
      <4>6. \A u \in ties \ {t} : From(u) \in W <=> To(u) \in W
        BY <3>3, <4>4, <4>5
      <4> QED
        BY <4>1, <4>2, <4>3, <4>6 DEF OnlyTie
    <3> QED
      BY <3>4, <3>5
  <2>10. \A t \in ties : \E S \in SUBSET Buses : OnlyTie(fixed, ties, t, S)
    BY <2>7, <2>8, <2>9
  <2>11. new.label = joined /\ new.tied = ties
    BY <2>1
  <2> HIDE DEF new, joined, ties
  <2>12. TiesSoFar(new, fixed, closed, s)
    BY <2>4, <2>5, <2>6, <2>10, <2>11 DEF TiesSoFar
  <2> QED
    BY <2>12 DEF new
<1> QED
  BY <1>5, <1>6

\* After all of them.
LEMMA TiedIs ==
  ASSUME model \in Models, bus = Merged(model),
         NEW fixed \in SUBSET Buses, NEW closed \in SUBSET Switches
  PROVE  \E acc : /\ acc.tied = Tied(fixed, closed)
                  /\ TiesSoFar(acc, fixed, closed, Len(SwitchEnds))
<1> DEFINE N == Len(SwitchEnds)
<1>1. N \in Nat /\ Switches = 1..N
  BY SwitchTypes
<1> DEFINE k == CHOOSE h : Ties(h, fixed, closed, N)
<1>2. Ties(k, fixed, closed, N)
  BY <1>1, TiesExist
<1>3. Tied(fixed, closed) = k[N].tied
  BY DEF Tied, Ties
<1> HIDE DEF k
<1> DEFINE T == {n \in Nat : n <= N => TiesSoFar(k[n], fixed, closed, n)}
<1>4. 0 \in T
  <2> DEFINE acc == [label |-> Seeded(fixed), tied |-> {}]
  <2>1. k[0] = acc
    BY <1>1, <1>2 DEF Ties
  <2>2. /\ Seeded(fixed) \in [Buses -> Buses]
        /\ \A S : Respects(Seeded(fixed), S) <=> SameSide(fixed, S)
    BY SeededRespects
  <2>3. acc \in TieState /\ acc.tied = {} /\ acc.label = Seeded(fixed)
    BY <2>2 DEF TieState
  <2>4. \A s \in closed : ~(s <= 0)
    BY <1>1
  <2> HIDE DEF acc
  <2>5. TiesSoFar(acc, fixed, closed, 0)
    BY <2>2, <2>3, <2>4 DEF TiesSoFar
  <2> QED
    BY <2>1, <2>5
<1>5. ASSUME NEW n \in T PROVE n + 1 \in T
  <2> SUFFICES ASSUME n + 1 <= N PROVE TiesSoFar(k[n + 1], fixed, closed, n + 1)
    OBVIOUS
  <2>1. TiesSoFar(k[n], fixed, closed, n)
    BY <1>1
  <2>2. k[n + 1] = IF n + 1 \in closed THEN TieOrPin(k[n], n + 1) ELSE k[n]
    <3>1. n + 1 \in 0..N /\ n + 1 # 0 /\ (n + 1) - 1 = n
      BY <1>1
    <3> DEFINE m == n + 1
    <3> HIDE DEF m
    <3>2. m \in 0..N => k[m] = IF m = 0 THEN [label |-> Seeded(fixed), tied |-> {}]
                               ELSE IF m \in closed THEN TieOrPin(k[m - 1], m) ELSE k[m - 1]
      BY <1>2 DEF Ties
    <3> QED
      BY <3>1, <3>2 DEF m
  <2>3. CASE n + 1 \in closed
    BY <2>1, <2>2, <2>3, TieStep
  <2>4. CASE n + 1 \notin closed
    <3>1. \A s \in closed : s <= n + 1 => s <= n
      BY <1>1, <2>4
    <3>2. \A t \in closed : t <= n => t <= n + 1
      BY <1>1
    <3> QED
      BY <2>1, <2>2, <2>4, <3>1, <3>2 DEF TiesSoFar
  <2> QED
    BY <2>3, <2>4
<1>6. T = Nat
  <2> HIDE DEF T
  <2>1. T \in SUBSET Nat
    BY DEF T
  <2> QED
    BY <1>4, <1>5, <2>1, Induct
<1>7. TiesSoFar(k[N], fixed, closed, N)
  <2>1. N \in T
    BY <1>1, <1>6
  <2> QED
    BY <1>1, <2>1
<1> QED
  BY <1>3, <1>7

\* The rows of the last constrained solve are ties of its closed switches.
LEMMA TiesFromInv == SwitchInv => TiesSpanTheLoops
<1> SUFFICES ASSUME SwitchInv, result # NotYet, model.constrained, NEW half \in Halves
             PROVE  LET fixed == Fixed(half, result.live)
                        ties == result.rows[half]
                    IN  /\ \A s \in ClosedSwitches : Determined(fixed, ties, s)
                        /\ \A t \in ties : ~Determined(fixed, ties \ {t}, t)
  BY DEF TiesSpanTheLoops
<1> DEFINE fixed == Fixed(half, result.live)
           ties == result.rows[half]
<1>1. /\ model \in Models /\ bus = Merged(model)
      /\ ties = Tied(fixed, ClosedSwitches)
  BY DEF SwitchInv
<1>2. fixed \in SUBSET Buses /\ ClosedSwitches \in SUBSET Switches
  BY <1>1, SwitchTypes DEF Fixed, ClosedSwitches
<1> HIDE DEF fixed, ties
<1>3. PICK acc : acc.tied = ties /\ TiesSoFar(acc, fixed, ClosedSwitches, Len(SwitchEnds))
  BY <1>1, <1>2, TiedIs
<1>4. \A t \in ties : t \in ClosedSwitches
  BY <1>3 DEF TiesSoFar
<1>5. ASSUME NEW A \in SUBSET ClosedSwitches, NEW S
      PROVE  Linked({<<From(t), To(t)>> : t \in A}, S) <=> \A t \in A : From(t) \in S <=> To(t) \in S
  <2>1. A \in SUBSET Switches
    BY <1>2
  <2> QED
    BY <2>1, EndsLink
<1>6. ASSUME NEW s \in ClosedSwitches PROVE Determined(fixed, ties, s)
  <2> SUFFICES ASSUME NEW S \in SUBSET Buses, SameSide(fixed, S),
                      Linked({<<From(t), To(t)>> : t \in ties}, S)
               PROVE  From(s) \in S <=> To(s) \in S
    BY DEF Determined
  <2>1. \A t \in ties : From(t) \in S <=> To(t) \in S
    BY <1>4, <1>5
  <2>2. Respects(acc.label, S)
    BY <1>3, <2>1 DEF TiesSoFar
  <2>3. s <= Len(SwitchEnds) /\ From(s) \in Buses /\ To(s) \in Buses
    BY <1>1, <1>2, SwitchTypes
  <2>4. acc.label[From(s)] = acc.label[To(s)] /\ DOMAIN acc.label = Buses
    BY <1>3, <2>3 DEF TiesSoFar, TieState
  <2> QED
    BY <2>2, <2>3, <2>4 DEF Respects
<1>7. ASSUME NEW t \in ties PROVE ~Determined(fixed, ties \ {t}, t)
  <2>1. PICK S \in SUBSET Buses : OnlyTie(fixed, ties, t, S)
    BY <1>3 DEF TiesSoFar
  <2>2. ties \ {t} \in SUBSET ClosedSwitches
    BY <1>4
  <2>3. Linked({<<From(u), To(u)>> : u \in ties \ {t}}, S)
    BY <1>5, <2>1, <2>2 DEF OnlyTie
  <2> QED
    BY <2>1, <2>3 DEF Determined, OnlyTie
<1>8. /\ \A s \in ClosedSwitches : Determined(fixed, ties, s)
      /\ \A t \in ties : ~Determined(fixed, ties \ {t}, t)
  BY <1>6, <1>7
<1> QED
  BY <1>8 DEF fixed, ties

\* For any network and switches: the rows tie_or_pin writes are neither redundant
\* nor too few, for the angles as for the magnitudes.
THEOREM TiesAreASpanningForest == SwitchingSpec => []TiesSpanTheLoops
<1>1. SwitchingInit => SwitchInv
  BY SwitchInitInv
<1>2. SwitchInv /\ [SwitchingNext]_switchvars => SwitchInv'
  BY SwitchStep
<1>3. SwitchInv => TiesSpanTheLoops
  BY TiesFromInv
<1> QED
  BY <1>1, <1>2, <1>3, PTL DEF SwitchingSpec

-----------------------------------------------------------------------------
(* The factorization of a block.                                           *)

OneToOne(s) == \A m, n \in DOMAIN s : s[m] = s[n] => m = n

\* An entry more at the end.
LEMMA AppendIs ==
  ASSUME NEW S, NEW s \in Seq(S), NEW e \in S
  PROVE  /\ Append(s, e) \in Seq(S) /\ Len(s) \in Nat /\ Len(Append(s, e)) = Len(s) + 1
         /\ \A n \in 1..Len(s) : Append(s, e)[n] = s[n]
         /\ Append(s, e)[Len(s) + 1] = e
         /\ Range(Append(s, e)) = Range(s) \cup {e}
<1>1. /\ Append(s, e) \in Seq(S) /\ Len(s) \in Nat /\ Len(Append(s, e)) = Len(s) + 1
      /\ \A n \in 1..Len(s) : Append(s, e)[n] = s[n]
      /\ Append(s, e)[Len(s) + 1] = e
  OBVIOUS
<1>2. DOMAIN s = 1..Len(s) /\ DOMAIN Append(s, e) = 1..(Len(s) + 1)
  BY <1>1
<1>3. Range(s) = {s[n] : n \in 1..Len(s)}
  BY <1>2 DEF Range
<1>4. Range(Append(s, e)) = {Append(s, e)[n] : n \in 1..(Len(s) + 1)}
  BY <1>2 DEF Range
<1> DEFINE t == Append(s, e)
<1> HIDE DEF t
<1>5. {t[n] : n \in 1..(Len(s) + 1)} = {t[n] : n \in 1..Len(s)} \cup {t[Len(s) + 1]}
  BY <1>1
<1>6. {t[n] : n \in 1..Len(s)} = {s[n] : n \in 1..Len(s)}
  BY <1>1 DEF t
<1> QED
  BY <1>1, <1>3, <1>4, <1>5, <1>6 DEF t

\* The last entry and what is before it.
LEMMA FrontIs ==
  ASSUME NEW S, NEW s \in Seq(S), s # <<>>
  PROVE  /\ Front(s) \in Seq(S) /\ Len(s) \in Nat \ {0} /\ Len(Front(s)) = Len(s) - 1
         /\ \A n \in 1..(Len(s) - 1) : Front(s)[n] = s[n]
         /\ Last(s) = s[Len(s)] /\ Last(s) \in S
         /\ Range(s) = Range(Front(s)) \cup {Last(s)}
<1>1. Len(s) \in Nat \ {0}
  OBVIOUS
<1>2. /\ Front(s) \in Seq(S) /\ Len(Front(s)) = Len(s) - 1
      /\ \A n \in 1..(Len(s) - 1) : Front(s)[n] = s[n]
  <2> DEFINE m == Len(s) - 1
  <2>1. m \in Nat /\ m <= Len(s) /\ Front(s) = SubSeq(s, 1, m)
    BY <1>1 DEF Front
  <2> HIDE DEF m
  <2>2. SubSeq(s, 1, m) \in Seq(S)
    BY <2>1
  <2>3. Len(SubSeq(s, 1, m)) = m
    BY <2>1
  <2>4. \A n \in 1..m : SubSeq(s, 1, m)[n] = s[n]
    BY <2>1
  <2> QED
    BY <2>1, <2>2, <2>3, <2>4 DEF m
<1>3. Last(s) = s[Len(s)] /\ Last(s) \in S
  BY <1>1 DEF Last
<1>4. Range(s) = {s[n] : n \in 1..Len(s)}
  BY DEF Range
<1> DEFINE t == Front(s)
<1>5. DOMAIN t = 1..(Len(s) - 1)
  BY <1>1, <1>2
<1>6. Range(t) = {t[n] : n \in 1..(Len(s) - 1)}
  BY <1>5 DEF Range
<1> HIDE DEF t
<1>7. {t[n] : n \in 1..(Len(s) - 1)} = {s[n] : n \in 1..(Len(s) - 1)}
  BY <1>2 DEF t
<1>8. {s[n] : n \in 1..Len(s)} = {s[n] : n \in 1..(Len(s) - 1)} \cup {s[Len(s)]}
  BY <1>1
<1> QED
  BY <1>1, <1>2, <1>3, <1>4, <1>6, <1>7, <1>8 DEF t

\* An entry more in front.
LEMMA InFrontIs ==
  ASSUME NEW S, NEW s \in Seq(S), NEW e \in S
  PROVE  /\ <<e>> \o s \in Seq(S) /\ Len(s) \in Nat /\ Len(<<e>> \o s) = Len(s) + 1
         /\ (<<e>> \o s)[1] = e
         /\ \A n \in 1..Len(s) : (<<e>> \o s)[n + 1] = s[n]
         /\ \A n \in 2..(Len(s) + 1) : (<<e>> \o s)[n] = s[n - 1]
         /\ Range(<<e>> \o s) = Range(s) \cup {e}
<1> DEFINE t == <<e>> \o s
<1>1. /\ t \in Seq(S) /\ Len(s) \in Nat /\ Len(t) = Len(s) + 1 /\ t[1] = e
      /\ \A n \in 2..(Len(s) + 1) : t[n] = s[n - 1]
  OBVIOUS
<1>2. DOMAIN s = 1..Len(s) /\ DOMAIN t = 1..(Len(s) + 1)
  BY <1>1
<1>3. Range(s) = {s[n] : n \in 1..Len(s)} /\ Range(t) = {t[n] : n \in 1..(Len(s) + 1)}
  BY <1>2 DEF Range
<1> HIDE DEF t
<1>4. \A n \in 1..Len(s) : t[n + 1] = s[n]
  <2> TAKE n \in 1..Len(s)
  <2>1. n + 1 \in 2..(Len(s) + 1) /\ (n + 1) - 1 = n
    BY <1>1
  <2> QED
    BY <1>1, <2>1
<1>5. Range(t) = Range(s) \cup {e}
  <2>1. ASSUME NEW v \in Range(t) PROVE v \in Range(s) \cup {e}
    <3>1. PICK n \in 1..(Len(s) + 1) : v = t[n]
      BY <1>3
    <3>2. n = 1 \/ (n \in 2..(Len(s) + 1) /\ n - 1 \in 1..Len(s))
      BY <1>1
    <3> QED
      BY <1>1, <1>3, <3>1, <3>2
  <2>2. ASSUME NEW v \in Range(s) PROVE v \in Range(t)
    <3>1. PICK n \in 1..Len(s) : v = s[n]
      BY <1>3
    <3>2. n + 1 \in 1..(Len(s) + 1)
      BY <1>1
    <3> QED
      BY <1>3, <1>4, <3>1, <3>2
  <2>3. e \in Range(t)
    <3>1. 1 \in 1..(Len(s) + 1)
      BY <1>1
    <3> QED
      BY <1>1, <1>3, <3>1
  <2> QED
    BY <2>1, <2>2, <2>3
<1> QED
  BY <1>1, <1>4, <1>5 DEF t

\* lpivot takes out the pivot and nothing else.
LEMMA WithoutIs ==
  ASSUME NEW S, NEW s \in Seq(S), OneToOne(s), NEW n \in DOMAIN s
  PROVE  /\ Without(s, n) \in Seq(S) /\ OneToOne(Without(s, n))
         /\ Range(Without(s, n)) = Range(s) \ {s[n]}
<1> DEFINE N == Len(s)
           t == Without(s, n)
<1>1. N \in Nat \ {0} /\ DOMAIN s = 1..N /\ s # <<>> /\ n \in 1..N
  OBVIOUS
<1>2. /\ Front(s) \in Seq(S) /\ Len(Front(s)) = N - 1
      /\ \A m \in 1..(N - 1) : Front(s)[m] = s[m]
      /\ Last(s) = s[N] /\ Last(s) \in S
  BY <1>1, FrontIs
<1>3. DOMAIN Front(s) = 1..(N - 1)
  BY <1>1, <1>2
<1>4. t \in Seq(S) /\ DOMAIN t = 1..(N - 1)
  BY <1>1, <1>2, <1>3 DEF Without
<1>5. \A m \in 1..(N - 1) : t[m] = IF m = n THEN s[N] ELSE s[m]
  BY <1>1, <1>2, <1>3 DEF Without
<1> HIDE DEF t, N
<1>6. \A m \in 1..(N - 1) : m \in 1..N /\ m # N
  BY <1>1
<1>7. OneToOne(t)
  BY <1>1, <1>4, <1>5, <1>6 DEF OneToOne
<1>8. Range(t) = {t[m] : m \in 1..(N - 1)} /\ Range(s) = {s[m] : m \in 1..N}
  BY <1>1, <1>4 DEF Range
<1>9. N \in 1..N
  BY <1>1
<1>10. ASSUME NEW v \in Range(t) PROVE v \in Range(s) \ {s[n]}
  <2>1. PICK m \in 1..(N - 1) : v = t[m]
    BY <1>8
  <2> QED
    BY <1>1, <1>5, <1>6, <1>8, <1>9, <2>1 DEF OneToOne
<1>11. ASSUME NEW v \in Range(s) \ {s[n]} PROVE v \in Range(t)
  <2>1. PICK m \in 1..N : v = s[m] /\ m # n
    BY <1>8
  <2>2. m # N => m \in 1..(N - 1)
    BY <1>1
  <2>3. n # N => n \in 1..(N - 1)
    BY <1>1
  <2> QED
    BY <1>5, <1>8, <2>1, <2>2, <2>3
<1> QED
  BY <1>4, <1>7, <1>10, <1>11 DEF t

\* Where the partition is after n of its steps.
SweepState(S) == [rows : Seq(S), head : Nat, tail : Nat]
Partitioned(s, rows, pivotRows, n) ==
  /\ Len(s.rows) = Len(rows) /\ Range(s.rows) = Range(rows)
  /\ OneToOne(rows) => OneToOne(s.rows)
  /\ s.head >= 1 /\ s.tail <= Len(rows) + 1 /\ s.tail - s.head = Len(rows) - n
  /\ \A m \in 1..Len(rows) : m < s.head => s.rows[m] \in pivotRows
  /\ \A m \in 1..Len(rows) : m >= s.tail => s.rows[m] \notin pivotRows

\* One step keeps the rows and brings head and tail one closer.
LEMMA PartitionStepIs ==
  ASSUME NEW S, NEW rows \in Seq(S), NEW pivotRows, NEW n \in Nat, n < Len(rows),
         NEW s \in SweepState(S), Partitioned(s, rows, pivotRows, n)
  PROVE  /\ PartitionStep(s, pivotRows) \in SweepState(S)
         /\ Partitioned(PartitionStep(s, pivotRows), rows, pivotRows, n + 1)
<1> DEFINE N == Len(rows)
           h == s.head
           t == s.tail
           r == s.rows
<1>1. /\ N \in Nat /\ h \in Nat /\ t \in Nat /\ r \in Seq(S) /\ Len(r) = N
      /\ h >= 1 /\ t <= N + 1 /\ t - h = N - n
      /\ s = [rows |-> r, head |-> h, tail |-> t]
  BY DEF SweepState, Partitioned
<1>2. h \in 1..N /\ t - 1 \in 1..N /\ h <= t - 1
  BY <1>1
<1>3. DOMAIN r = 1..N
  BY <1>1
<1>4. /\ Range(r) = Range(rows) /\ (OneToOne(rows) => OneToOne(r))
      /\ \A m \in 1..N : m < h => r[m] \in pivotRows
      /\ \A m \in 1..N : m >= t => r[m] \notin pivotRows
  BY DEF Partitioned
<1>5. CASE r[h] \in pivotRows
  <2>1. PartitionStep(s, pivotRows) = [rows |-> r, head |-> h + 1, tail |-> t]
    BY <1>1, <1>5 DEF PartitionStep, StaysInFront
  <2>2. PartitionStep(s, pivotRows) \in SweepState(S)
    BY <1>1, <2>1 DEF SweepState
  <2> DEFINE p == PartitionStep(s, pivotRows)
  <2>3. p.rows = r /\ p.head = h + 1 /\ p.tail = t
    BY <2>1
  <2> HIDE DEF p, N, h, t, r
  <2>4. \A m \in 1..N : m < h + 1 => r[m] \in pivotRows
    BY <1>1, <1>2, <1>4, <1>5 DEF r, h
  <2>5. t - (h + 1) = N - (n + 1)
    BY <1>1
  <2>6. h + 1 >= 1
    BY <1>1
  <2>7. Partitioned(p, rows, pivotRows, n + 1)
    BY <1>1, <1>4, <2>3, <2>4, <2>5, <2>6 DEF Partitioned, N
  <2> QED
    BY <2>2, <2>7 DEF p
<1>6. CASE r[h] \notin pivotRows
  <2> DEFINE swapped == [r EXCEPT ![h] = r[t - 1], ![t - 1] = r[h]]
  <2>1. PartitionStep(s, pivotRows) = [rows |-> swapped, head |-> h, tail |-> t - 1]
    BY <1>1, <1>6 DEF PartitionStep, StaysInFront
  <2>2. swapped \in Seq(S) /\ Len(swapped) = N /\ DOMAIN swapped = 1..N
    BY <1>1, <1>2, <1>3
  <2>3. \A m \in 1..N : swapped[m] = IF m = t - 1 THEN r[h] ELSE IF m = h THEN r[t - 1] ELSE r[m]
    BY <1>1, <1>2, <1>3
  <2> DEFINE p == PartitionStep(s, pivotRows)
  <2>4. p.rows = swapped /\ p.head = h /\ p.tail = t - 1
    BY <2>1
  <2>5. PartitionStep(s, pivotRows) \in SweepState(S)
    BY <1>1, <1>2, <2>1, <2>2 DEF SweepState
  <2> HIDE DEF p, swapped, N, h, t, r
  <2>6. Range(swapped) = Range(r)
    <3>1. Range(swapped) = {swapped[m] : m \in 1..N} /\ Range(r) = {r[m] : m \in 1..N}
      BY <1>3, <2>2 DEF Range
    <3>2. ASSUME NEW m \in 1..N PROVE swapped[m] \in {r[l] : l \in 1..N}
      BY <1>2, <2>3
    <3>3. ASSUME NEW m \in 1..N PROVE r[m] \in {swapped[l] : l \in 1..N}
      <4>1. CASE m = t - 1
        <5>1. swapped[h] = r[t - 1]
          BY <1>2, <2>3
        <5> QED
          BY <1>2, <4>1, <5>1
      <4>2. CASE m # t - 1 /\ m = h
        <5>1. swapped[t - 1] = r[h]
          BY <1>2, <2>3
        <5> QED
          BY <1>2, <4>2, <5>1
      <4>3. CASE m # t - 1 /\ m # h
        BY <2>3, <4>3
      <4> QED
        BY <4>1, <4>2, <4>3
    <3> QED
      BY <3>1, <3>2, <3>3
  <2>7. OneToOne(r) => OneToOne(swapped)
    <3> SUFFICES ASSUME OneToOne(r), NEW a \in 1..N, NEW b \in 1..N, swapped[a] = swapped[b]
                 PROVE  a = b
      BY <2>2 DEF OneToOne
    <3>1. \A m, l \in 1..N : r[m] = r[l] => m = l
      BY <1>3 DEF OneToOne
    <3> QED
      BY <1>2, <2>3, <3>1
  <2>8. \A m \in 1..N : m < h => swapped[m] \in pivotRows
    <3> TAKE m \in 1..N
    <3> HAVE m < h
    <3>1. m # h /\ m # t - 1
      BY <1>1, <1>2
    <3> QED
      BY <1>4, <2>3, <3>1
  <2>9. \A m \in 1..N : m >= t - 1 => swapped[m] \notin pivotRows
    <3> TAKE m \in 1..N
    <3> HAVE m >= t - 1
    <3>1. CASE m = t - 1
      BY <1>6, <2>3, <3>1
    <3>2. CASE m # t - 1
      <4>1. m >= t /\ m # h
        BY <1>1, <1>2, <3>2
      <4> QED
        BY <1>4, <2>3, <3>2, <4>1
    <3> QED
      BY <3>1, <3>2
  <2>10. t - 1 <= N + 1 /\ (t - 1) - h = N - (n + 1)
    BY <1>1
  <2>11. Partitioned(p, rows, pivotRows, n + 1)
    BY <1>1, <1>4, <2>2, <2>4, <2>6, <2>7, <2>8, <2>9, <2>10 DEF Partitioned, N
  <2> QED
    BY <2>5, <2>11 DEF p
<1> QED
  BY <1>5, <1>6

\* What the partition is computed by, in its first steps.
Sweep(k, rows, pivotRows, len) ==
  k = [n \in 0..len |->
         IF n = 0 THEN [rows |-> rows, head |-> 1, tail |-> Len(rows) + 1]
         ELSE PartitionStep(k[n - 1], pivotRows)]

\* They exist, step by step.
LEMMA SweepsExist ==
  ASSUME NEW rows, NEW pivotRows, NEW len \in Nat
  PROVE  \E k : Sweep(k, rows, pivotRows, len)
<1> DEFINE start == [rows |-> rows, head |-> 1, tail |-> Len(rows) + 1]
           T == {m \in Nat : \E k : Sweep(k, rows, pivotRows, m)}
<1> HIDE DEF start
<1>1. 0 \in T
  <2> DEFINE k == [n \in 0..0 |-> start]
  <2>1. Sweep(k, rows, pivotRows, 0)
    BY DEF Sweep, start
  <2> QED
    BY <2>1
<1>2. ASSUME NEW m \in T PROVE m + 1 \in T
  <2>1. PICK g : Sweep(g, rows, pivotRows, m)
    OBVIOUS
  <2> DEFINE k == [n \in 0..(m + 1) |->
                     IF n \in 0..m THEN g[n] ELSE PartitionStep(g[n - 1], pivotRows)]
  <2>2. ASSUME NEW n \in 0..(m + 1)
        PROVE  k[n] = IF n = 0 THEN start ELSE PartitionStep(k[n - 1], pivotRows)
    <3>1. \A i \in 0..m : i \in 0..(m + 1) /\ k[i] = g[i]
      OBVIOUS
    <3>2. CASE n = 0
      <4>1. g[0] = start
        BY <2>1 DEF Sweep, start
      <4> QED
        BY <3>1, <3>2, <4>1
    <3>3. CASE n # 0
      <4>1. n - 1 \in 0..m /\ k[n - 1] = g[n - 1]
        BY <3>1, <3>3
      <4>2. k[n] = PartitionStep(g[n - 1], pivotRows)
        <5>1. CASE n \in 0..m
          <6>1. g[n] = PartitionStep(g[n - 1], pivotRows)
            BY <2>1, <3>3, <5>1 DEF Sweep
          <6> QED
            BY <3>1, <5>1, <6>1
        <5>2. CASE n \notin 0..m
          BY <5>2
        <5> QED
          BY <5>1, <5>2
      <4> QED
        BY <3>3, <4>1, <4>2
    <3> QED
      BY <3>2, <3>3
  <2>3. Sweep(k, rows, pivotRows, m + 1)
    <3>1. k = [n \in 0..(m + 1) |-> k[n]]
      OBVIOUS
    <3> HIDE DEF k
    <3> QED
      BY <2>2, <3>1 DEF Sweep, start
  <2> QED
    BY <2>3
<1>3. T = Nat
  BY <1>1, <1>2, Induct
<1> QED
  BY <1>3

\* A partition holds the same rows, the pivotal ones first.
LEMMA PartitionIs ==
  ASSUME NEW S, NEW rows \in Seq(S), NEW pivotRows
  PROVE  LET p == Partition(rows, pivotRows) IN
           /\ p.rows \in Seq(S) /\ Len(p.rows) = Len(rows) /\ Range(p.rows) = Range(rows)
           /\ OneToOne(rows) => OneToOne(p.rows)
           /\ p.tail - 1 \in 0..Len(rows)
           /\ \A m \in 1..Len(rows) : p.rows[m] \in pivotRows <=> m <= p.tail - 1
<1> DEFINE N == Len(rows)
<1>1. N \in Nat
  OBVIOUS
<1> DEFINE k == CHOOSE k : Sweep(k, rows, pivotRows, N)
<1>2. Sweep(k, rows, pivotRows, N)
  BY <1>1, SweepsExist
<1>3. Partition(rows, pivotRows) = k[N]
  BY DEF Partition, Sweep
<1> HIDE DEF k
<1> DEFINE T == {n \in Nat : n <= N => /\ k[n] \in SweepState(S)
                                       /\ Partitioned(k[n], rows, pivotRows, n)}
<1>4. 0 \in T
  <2>1. k[0] = [rows |-> rows, head |-> 1, tail |-> N + 1]
    BY <1>1, <1>2 DEF Sweep
  <2>2. k[0] \in SweepState(S)
    BY <1>1, <2>1 DEF SweepState
  <2>3. Partitioned(k[0], rows, pivotRows, 0)
    BY <1>1, <2>1 DEF Partitioned
  <2> QED
    BY <2>2, <2>3
<1>5. ASSUME NEW n \in T PROVE n + 1 \in T
  <2> SUFFICES ASSUME n + 1 <= N
               PROVE  k[n + 1] \in SweepState(S) /\ Partitioned(k[n + 1], rows, pivotRows, n + 1)
    OBVIOUS
  <2>1. k[n] \in SweepState(S) /\ Partitioned(k[n], rows, pivotRows, n) /\ n < Len(rows)
    BY <1>1
  <2>2. k[n + 1] = PartitionStep(k[n], pivotRows)
    <3> DEFINE m == n + 1
    <3>1. m \in 0..N /\ m # 0 /\ m - 1 = n
      BY <1>1
    <3> HIDE DEF m
    <3>2. k[m] = PartitionStep(k[m - 1], pivotRows)
      BY <1>2, <3>1 DEF Sweep
    <3> QED
      BY <3>1, <3>2 DEF m
  <2> QED
    BY <2>1, <2>2, PartitionStepIs
<1>6. T = Nat
  BY <1>4, <1>5, Induct
<1>7. k[N] \in SweepState(S) /\ Partitioned(k[N], rows, pivotRows, N)
  BY <1>1, <1>6
<1> HIDE DEF T
<1>8. k[N].head \in Nat /\ k[N].tail \in Nat /\ k[N].rows \in Seq(S)
  BY <1>7 DEF SweepState
<1>9. k[N].tail = k[N].head /\ k[N].head >= 1 /\ k[N].tail <= N + 1
  BY <1>1, <1>7, <1>8 DEF Partitioned
<1>10. \A m \in 1..N : k[N].rows[m] \in pivotRows <=> m <= k[N].tail - 1
  BY <1>1, <1>7, <1>8, <1>9 DEF Partitioned
<1> QED
  BY <1>1, <1>3, <1>7, <1>8, <1>9, <1>10 DEF Partitioned

\* The rows of a column of L, and all the rows a finished column fills.
Lows(j) == Range(lower[j])
FilledRows(k) == {prow[j] : j \in Range(upper[k])} \cup {prow[k]} \cup Lows(k)

LuTypeOK ==
  /\ matrix \in [Rows -> SUBSET Rows]
  /\ prow \in [Rows -> Rows] /\ place \in [Rows -> Rows]
  /\ lower \in Seq(Seq(Rows)) /\ upper \in Seq(Seq(Rows))
  /\ pruned \in Seq(Nat \cup {NotPruned})
  /\ Len(upper) = Len(lower) /\ Len(pruned) = Len(lower) /\ Len(lower) <= BlockSize
  /\ outcome = "factoring" => Len(lower) < BlockSize
  /\ outcome = "done" => Len(lower) = BlockSize
  /\ todo \subseteq Rows /\ flagged \subseteq Rows
  /\ trail \in Seq(Rows) /\ eliminated \in Seq(Rows) /\ lik \in Seq(Rows)
  /\ unscanned \in [Rows -> Nat]
  /\ trail # <<>> => outcome = "factoring"

\* P and Pinv are inverse to each other, and the pivots have the first places.
PlacesInv ==
  /\ \A k \in Rows : place[prow[k]] = k
  /\ \A i \in Rows : prow[place[i]] = i
  /\ pivotal = {i \in Rows : place[i] <= Len(lower)}

\* What IsFactor says of a column, by the rows as they were given.
ColumnInv(k) ==
  /\ OneToOne(upper[k]) /\ \A j \in Range(upper[k]) : j < k
  /\ OneToOne(lower[k]) /\ \A i \in Lows(k) : place[i] > k
  /\ matrix[k] \subseteq FilledRows(k)
  /\ \A j \in Range(upper[k]) : Lows(j) \subseteq FilledRows(k)
  /\ \A i \in FilledRows(k) \ matrix[k] : \E j \in Range(upper[k]) : i \in Lows(j)
  /\ \A a, b \in DOMAIN upper[k] : a < b => prow[upper[k][a]] \notin Lows(upper[k][b])

\* What is not searched of a column is in the column of a pivot that is.
PruneInv(j) ==
  pruned[j] # NotPruned =>
    /\ pruned[j] <= Len(lower[j])
    /\ \E n \in 1..pruned[j] :
         /\ lower[j][n] \in pivotal
         /\ \A m \in DOMAIN lower[j] : m > pruned[j] => lower[j][m] \in Lows(place[lower[j][n]])

FactorInv == PlacesInv /\ \A k \in DOMAIN lower : ColumnInv(k) /\ PruneInv(k)

\* Once a row is finished, what its column was searched for comes after it.
Before(s, i, r) == \E a, b \in DOMAIN s : a < b /\ s[a] = i /\ s[b] = r
\* What is flagged is an entry of the column or in the column of a pivot row
\* that is.
ReachInv ==
  /\ matrix[Col] \subseteq todo \cup flagged /\ todo \subseteq matrix[Col]
  /\ \A r \in flagged : r \in matrix[Col] \/ \E i \in flagged \cap pivotal : r \in Lows(place[i])
StackInv ==
  /\ flagged \cap pivotal = Range(trail) \cup Range(eliminated)
  /\ Range(trail) \cap Range(eliminated) = {}
  /\ flagged \ pivotal = Range(lik)
  /\ OneToOne(eliminated) /\ OneToOne(lik)
  /\ \A a, b \in DOMAIN trail : a < b => place[trail[a]] < place[trail[b]]
ScanInv ==
  /\ \A i \in Range(trail) : unscanned[i] <= SearchLength(i)
  /\ \A i \in Range(trail) : \A n \in (unscanned[i] + 1)..SearchLength(i) :
       lower[place[i]][n] \in flagged
  /\ \A i \in Range(eliminated) : \A n \in 1..SearchLength(i) :
       /\ lower[place[i]][n] \in flagged
       /\ lower[place[i]][n] \in pivotal => Before(eliminated, i, lower[place[i]][n])
SearchInv == ReachInv /\ StackInv /\ ScanInv

LuInv == LuTypeOK /\ FactorInv /\ (outcome = "factoring" => SearchInv)

\* What the types say of the parts.
LEMMA LuTypes ==
  ASSUME LuTypeOK
  PROVE  /\ BlockSize \in Nat /\ Rows = 1..BlockSize /\ Len(lower) \in Nat
         /\ DOMAIN lower = 1..Len(lower)
         /\ DOMAIN upper = 1..Len(lower) /\ DOMAIN pruned = 1..Len(lower)
         /\ Col = Len(lower) + 1 /\ (outcome = "factoring" => Col \in Rows)
         /\ \A k \in 1..Len(lower) :
              /\ lower[k] \in Seq(Rows) /\ upper[k] \in Seq(Rows)
              /\ pruned[k] \in Nat \cup {NotPruned}
              /\ Len(lower[k]) \in Nat /\ DOMAIN lower[k] = 1..Len(lower[k])
              /\ Len(upper[k]) \in Nat /\ DOMAIN upper[k] = 1..Len(upper[k])
              /\ Lows(k) = {lower[k][n] : n \in 1..Len(lower[k])} /\ Lows(k) \subseteq Rows
              /\ Range(upper[k]) \subseteq Rows
<1>1. /\ BlockSize \in Nat /\ Rows = 1..BlockSize
      /\ lower \in Seq(Seq(Rows)) /\ upper \in Seq(Seq(Rows))
      /\ pruned \in Seq(Nat \cup {NotPruned})
      /\ Len(upper) = Len(lower) /\ Len(pruned) = Len(lower) /\ Len(lower) <= BlockSize
      /\ outcome = "factoring" => Len(lower) < BlockSize
  BY BlockAssumption DEF LuTypeOK, Rows
<1>2. /\ Len(lower) \in Nat /\ DOMAIN lower = 1..Len(lower)
      /\ DOMAIN upper = 1..Len(lower) /\ DOMAIN pruned = 1..Len(lower)
  <2>1. Len(lower) \in Nat /\ DOMAIN lower = 1..Len(lower)
    BY <1>1
  <2>2. DOMAIN upper = 1..Len(upper) /\ DOMAIN pruned = 1..Len(pruned)
    BY <1>1
  <2> QED
    BY <1>1, <2>1, <2>2
<1>3. Col = Len(lower) + 1 /\ (outcome = "factoring" => Col \in Rows)
  BY <1>1, <1>2 DEF Col
<1>4. ASSUME NEW k \in 1..Len(lower)
      PROVE  lower[k] \in Seq(Rows) /\ upper[k] \in Seq(Rows) /\ pruned[k] \in Nat \cup {NotPruned}
  <2> DEFINE R == Seq(Rows)
  <2>1. lower \in Seq(R) /\ upper \in Seq(R) /\ k \in 1..Len(upper) /\ k \in 1..Len(pruned)
    BY <1>1
  <2> HIDE DEF R
  <2>2. lower[k] \in R /\ upper[k] \in R
    BY <2>1
  <2> QED
    BY <1>1, <2>1, <2>2 DEF R
<1>5. ASSUME NEW s \in Seq(Rows)
      PROVE  Len(s) \in Nat /\ DOMAIN s = 1..Len(s) /\ Range(s) = {s[n] : n \in 1..Len(s)}
             /\ Range(s) \subseteq Rows
  BY DEF Range
<1> QED
  BY <1>1, <1>2, <1>3, <1>4, <1>5 DEF Lows

\* What is searched of a column lies in it, and at later places.
LEMMA SearchTypes ==
  ASSUME LuTypeOK, FactorInv, NEW i \in pivotal
  PROVE  /\ i \in Rows /\ place[i] \in DOMAIN lower /\ place[i] \in 1..Len(lower)
         /\ prow[place[i]] = i
         /\ SearchLength(i) \in Nat /\ SearchLength(i) <= Len(lower[place[i]])
         /\ \A n \in 1..SearchLength(i) :
              /\ lower[place[i]][n] \in Rows /\ lower[place[i]][n] \in Lows(place[i])
              /\ place[lower[place[i]][n]] > place[i]
<1> DEFINE k == place[i]
<1>1. i \in Rows /\ k \in Rows /\ k <= Len(lower) /\ prow[k] = i
  BY DEF FactorInv, PlacesInv, LuTypeOK
<1>2. k \in 1..Len(lower) /\ k \in DOMAIN lower
  BY <1>1, LuTypes
<1>3. /\ pruned[k] \in Nat \cup {NotPruned} /\ Len(lower[k]) \in Nat
      /\ Lows(k) = {lower[k][n] : n \in 1..Len(lower[k])} /\ Lows(k) \subseteq Rows
  BY <1>2, LuTypes
<1>4. ColumnInv(k) /\ PruneInv(k)
  BY <1>2 DEF FactorInv
<1>5. SearchLength(i) \in Nat /\ SearchLength(i) <= Len(lower[k])
  BY <1>3, <1>4 DEF SearchLength, PruneInv
<1>6. \A r \in Lows(k) : place[r] > k
  BY <1>4 DEF ColumnInv
<1>7. ASSUME NEW n \in 1..SearchLength(i)
      PROVE  lower[k][n] \in Lows(k)
  <2>1. n \in 1..Len(lower[k])
    BY <1>3, <1>5
  <2> QED
    BY <1>3, <2>1
<1> QED
  BY <1>1, <1>2, <1>3, <1>5, <1>6, <1>7

\* The search leaves the factors alone.
LEMMA SameFactors ==
  ASSUME UNCHANGED factors
  PROVE  /\ Col' = Col /\ pivotal' = pivotal /\ matrix' = matrix /\ place' = place
         /\ lower' = lower /\ outcome' = outcome
         /\ FactorInv => FactorInv'
         /\ \A i : SearchLength(i)' = SearchLength(i)
         /\ \A j : Lows(j)' = Lows(j)
<1>1. /\ matrix' = matrix /\ prow' = prow /\ place' = place /\ pivotal' = pivotal
      /\ lower' = lower /\ upper' = upper /\ pruned' = pruned /\ outcome' = outcome
  BY DEF factors
<1>2. \A j : Lows(j)' = Lows(j)
  BY <1>1 DEF Lows
<1>3. \A j : FilledRows(j)' = FilledRows(j)
  BY <1>1, <1>2 DEF FilledRows
<1>4. \A k : (ColumnInv(k) <=> ColumnInv(k)') /\ (PruneInv(k) <=> PruneInv(k)')
  BY <1>1, <1>2, <1>3 DEF ColumnInv, PruneInv
<1>5. FactorInv => FactorInv'
  BY <1>1, <1>4 DEF FactorInv, PlacesInv
<1> QED
  BY <1>1, <1>2, <1>5 DEF Col, SearchLength

\* Nothing is factored yet.
LEMMA LuInvInit == LuInit => LuInv
<1> SUFFICES ASSUME LuInit PROVE LuInv
  OBVIOUS
<1>1. BlockSize \in Nat \ {0} /\ Rows = 1..BlockSize /\ 1 \in Rows
  BY BlockAssumption DEF Rows
<1>2. matrix \in [Rows -> SUBSET Rows]
  BY BlockAssumption DEF LuInit
<1>3. /\ lower = <<>> /\ upper = <<>> /\ pruned = <<>> /\ trail = <<>>
      /\ eliminated = <<>> /\ lik = <<>> /\ Len(lower) = 0 /\ DOMAIN lower = {}
      /\ flagged = {} /\ todo = matrix[1] /\ pivotal = {} /\ outcome = "factoring"
  BY DEF LuInit
<1>4. prow = [k \in Rows |-> k] /\ place = [i \in Rows |-> i] /\ unscanned = [i \in Rows |-> 0]
  BY DEF LuInit
<1>5. LuTypeOK
  <2>1. <<>> \in Seq(Seq(Rows)) /\ <<>> \in Seq(Rows) /\ <<>> \in Seq(Nat \cup {NotPruned})
    OBVIOUS
  <2>2. todo \subseteq Rows
    BY <1>1, <1>2, <1>3
  <2>3. prow \in [Rows -> Rows] /\ place \in [Rows -> Rows] /\ unscanned \in [Rows -> Nat]
    BY <1>4
  <2>4. 0 < BlockSize /\ 0 <= BlockSize
    BY <1>1
  <2>5. Len(upper) = 0 /\ Len(pruned) = 0
    BY <1>3
  <2> QED
    BY <1>2, <1>3, <2>1, <2>2, <2>3, <2>4, <2>5 DEF LuTypeOK
<1>6. PlacesInv
  <2>1. \A i \in Rows : place[i] = i /\ prow[i] = i /\ ~(i <= 0)
    BY <1>1, <1>4
  <2> QED
    BY <1>3, <2>1 DEF PlacesInv
<1>7. FactorInv
  BY <1>3, <1>6 DEF FactorInv
<1>8. \A s : s = <<>> => Range(s) = {} /\ OneToOne(s) /\ DOMAIN s = {}
  BY DEF Range, OneToOne
<1>9. Col = 1
  BY <1>3 DEF Col
<1>10. ReachInv
  BY <1>3, <1>9 DEF ReachInv
<1>11. StackInv
  BY <1>3, <1>8 DEF StackInv
<1>12. ScanInv
  BY <1>3, <1>8 DEF ScanInv
<1> QED
  BY <1>5, <1>7, <1>10, <1>11, <1>12 DEF LuInv, SearchInv

\* To meet a row keeps the search sound: the row is an entry or in the column of
\* a row that is flagged, and if it is pivotal its place is after those of the
\* trail.
LEMMA MeetKeepsInv ==
  ASSUME LuInv, outcome = "factoring", UNCHANGED <<factors, eliminated>>,
         NEW i \in Rows, NEW remaining \in [Rows -> Nat], Meet(i, remaining),
         todo' \subseteq todo, matrix[Col] \subseteq todo' \cup flagged \cup {i},
         i \in matrix[Col] \/ \E r \in flagged \cap pivotal : i \in Lows(place[r]),
         i \in pivotal \ flagged => \A r \in Range(trail) : place[r] < place[i],
         \A r \in Range(trail) :
           /\ remaining[r] <= unscanned[r]
           /\ \A n \in (remaining[r] + 1)..SearchLength(r) : lower[place[r]][n] \in flagged \cup {i}
  PROVE  LuInv'
<1>1. LuTypeOK /\ FactorInv /\ ReachInv /\ StackInv /\ ScanInv
  BY DEF LuInv, SearchInv
<1>2. /\ Col' = Col /\ pivotal' = pivotal /\ matrix' = matrix /\ place' = place
      /\ lower' = lower /\ outcome' = outcome /\ FactorInv'
      /\ \A r : SearchLength(r)' = SearchLength(r)
      /\ \A j : Lows(j)' = Lows(j)
  BY <1>1, SameFactors
<1>3. eliminated' = eliminated /\ flagged' = flagged \cup {i}
  BY DEF Meet
<1>4. ReachInv'
  <2>1. matrix[Col] \subseteq todo' \cup flagged' /\ todo' \subseteq matrix[Col]
    BY <1>1, <1>3 DEF ReachInv
  <2>2. ASSUME NEW r \in flagged'
        PROVE  r \in matrix[Col] \/ \E t \in flagged' \cap pivotal : r \in Lows(place[t])
    BY <1>1, <1>3, <2>2 DEF ReachInv
  <2> QED
    BY <1>2, <2>1, <2>2 DEF ReachInv
<1>5. trail \in Seq(Rows) /\ lik \in Seq(Rows) /\ place \in [Rows -> Rows]
  BY <1>1 DEF LuTypeOK
<1>6. \A r \in Range(trail) : r \in Rows /\ r \in pivotal /\ r \in flagged
  BY <1>1, <1>5 DEF StackInv, FactorInv, PlacesInv
\* What the stacks and the numbers of entries left have to be.
<1>7. ASSUME trail' \in Seq(Rows), lik' \in Seq(Rows), unscanned' \in [Rows -> Nat],
             StackInv',
             \A r \in Range(trail') : unscanned'[r] <= SearchLength(r),
             \A r \in Range(trail') : \A n \in (unscanned'[r] + 1)..SearchLength(r) :
               lower[place[r]][n] \in flagged'
      PROVE  LuInv'
  <2>1. LuTypeOK'
    BY <1>1, <1>2, <1>3, <1>7 DEF LuTypeOK, factors
  <2>2. ScanInv'
    BY <1>1, <1>2, <1>3, <1>7 DEF ScanInv
  <2> QED
    BY <1>2, <1>4, <1>7, <2>1, <2>2 DEF LuInv, SearchInv
<1>8. ASSUME NEW r \in Range(trail)
      PROVE  /\ remaining[r] <= SearchLength(r)
             /\ \A n \in (remaining[r] + 1)..SearchLength(r) : lower[place[r]][n] \in flagged'
  <2>1. unscanned[r] <= SearchLength(r) /\ unscanned[r] \in Nat /\ remaining[r] \in Nat
    BY <1>1, <1>6 DEF ScanInv, LuTypeOK
  <2>2. SearchLength(r) \in Nat
    BY <1>1, <1>6, SearchTypes
  <2> QED
    BY <1>3, <2>1, <2>2
<1>9. CASE i \in flagged
  <2>1. flagged' = flagged /\ unscanned' = remaining /\ trail' = trail /\ lik' = lik
    BY <1>3, <1>9 DEF Meet
  <2>2. StackInv'
    BY <1>1, <1>2, <1>3, <2>1 DEF StackInv
  <2> QED
    BY <1>5, <1>7, <1>8, <2>1, <2>2
<1>10. CASE i \notin flagged /\ i \notin pivotal
  <2>1. lik' = Append(lik, i) /\ unscanned' = remaining /\ trail' = trail
    BY <1>10 DEF Meet
  <2>2. /\ lik' \in Seq(Rows) /\ Len(lik) \in Nat /\ Len(lik') = Len(lik) + 1
        /\ \A n \in 1..Len(lik) : lik'[n] = lik[n]
        /\ lik'[Len(lik) + 1] = i /\ Range(lik') = Range(lik) \cup {i}
    BY <1>5, <2>1, AppendIs
  <2>3. i \notin Range(lik) /\ OneToOne(lik)
    BY <1>1, <1>10 DEF StackInv
  <2>4. OneToOne(lik')
    <3>1. DOMAIN lik' = 1..(Len(lik) + 1) /\ DOMAIN lik = 1..Len(lik)
      BY <1>5, <2>2
    <3>2. \A m \in 1..Len(lik) : lik[m] # i
      BY <2>3, <3>1 DEF Range
    <3>3. \A m \in 1..(Len(lik) + 1) : m \in 1..Len(lik) \/ m = Len(lik) + 1
      BY <2>2
    <3> QED
      BY <2>2, <2>3, <3>1, <3>2, <3>3 DEF OneToOne
  <2>5. StackInv'
    <3>1. flagged' \cap pivotal = flagged \cap pivotal
      BY <1>3, <1>10
    <3>2. flagged' \ pivotal = Range(lik')
      BY <1>1, <1>3, <1>10, <2>2 DEF StackInv
    <3> QED
      BY <1>1, <1>2, <1>3, <2>1, <2>4, <3>1, <3>2 DEF StackInv
  <2> QED
    BY <1>5, <1>7, <1>8, <2>1, <2>2, <2>5
<1>11. CASE i \notin flagged /\ i \in pivotal
  <2>1. /\ trail' = Append(trail, i) /\ lik' = lik
        /\ unscanned' = [remaining EXCEPT ![i] = SearchLength(i)]
    BY <1>11 DEF Meet
  <2>2. /\ trail' \in Seq(Rows) /\ Len(trail) \in Nat /\ Len(trail') = Len(trail) + 1
        /\ \A n \in 1..Len(trail) : trail'[n] = trail[n]
        /\ trail'[Len(trail) + 1] = i /\ Range(trail') = Range(trail) \cup {i}
    BY <1>5, <2>1, AppendIs
  <2>3. SearchLength(i) \in Nat
    BY <1>1, <1>11, SearchTypes
  <2>4. i \notin Range(trail) /\ i \notin Range(eliminated)
    BY <1>1, <1>11 DEF StackInv
  <2>5. /\ unscanned' \in [Rows -> Nat] /\ unscanned'[i] = SearchLength(i)
        /\ \A r \in Range(trail) : unscanned'[r] = remaining[r]
    BY <1>6, <2>1, <2>3, <2>4
  <2>6. \A a, b \in DOMAIN trail' : a < b => place[trail'[a]] < place[trail'[b]]
    <3>1. DOMAIN trail' = 1..(Len(trail) + 1) /\ DOMAIN trail = 1..Len(trail)
      BY <1>5, <2>2
    <3> TAKE a, b \in DOMAIN trail'
    <3> HAVE a < b
    <3>2. a \in 1..Len(trail) /\ (b \in 1..Len(trail) \/ b = Len(trail) + 1)
      BY <2>2, <3>1
    <3>3. trail[a] \in Range(trail)
      BY <3>1, <3>2 DEF Range
    <3>4. CASE b \in 1..Len(trail)
      <4>1. place[trail[a]] < place[trail[b]]
        BY <1>1, <3>1, <3>2, <3>4 DEF StackInv
      <4> QED
        BY <2>2, <3>2, <3>4, <4>1
    <3>5. CASE b = Len(trail) + 1
      <4>1. place[trail[a]] < place[i]
        BY <1>11, <3>3
      <4> QED
        BY <2>2, <3>2, <3>5, <4>1
    <3> QED
      BY <3>2, <3>4, <3>5
  <2>7. StackInv'
    <3>1. flagged' \cap pivotal = Range(trail') \cup Range(eliminated)
      BY <1>1, <1>3, <1>11, <2>2 DEF StackInv
    <3>2. flagged' \ pivotal = Range(lik)
      BY <1>1, <1>3, <1>11 DEF StackInv
    <3>3. Range(trail') \cap Range(eliminated) = {}
      BY <1>1, <2>2, <2>4 DEF StackInv
    <3> QED
      BY <1>1, <1>2, <1>3, <2>1, <2>6, <3>1, <3>2, <3>3 DEF StackInv
  <2>8. \A r \in Range(trail') : unscanned'[r] <= SearchLength(r)
    BY <1>8, <2>2, <2>3, <2>5
  <2>9. ASSUME NEW r \in Range(trail'), NEW n \in (unscanned'[r] + 1)..SearchLength(r)
        PROVE  lower[place[r]][n] \in flagged'
    <3>1. CASE r = i
      BY <2>3, <2>5, <3>1
    <3>2. CASE r # i
      BY <1>8, <2>2, <2>5, <3>2
    <3> QED
      BY <3>1, <3>2
  <2> QED
    BY <1>5, <1>7, <2>1, <2>2, <2>5, <2>7, <2>8, <2>9
<1> QED
  BY <1>9, <1>10, <1>11

\* An entry of the column.
LEMMA TakeEntryKeepsInv == ASSUME LuInv, TakeEntry PROVE LuInv'
<1>1. PICK i \in todo : todo' = todo \ {i} /\ Meet(i, unscanned)
  BY DEF TakeEntry
<1>2. /\ outcome = "factoring" /\ trail = <<>> /\ UNCHANGED <<factors, eliminated>>
      /\ LuTypeOK /\ ReachInv
  BY DEF TakeEntry, LuInv, SearchInv
<1>3. i \in Rows /\ unscanned \in [Rows -> Nat]
  BY <1>2 DEF LuTypeOK
<1>4. /\ i \in matrix[Col] /\ todo' \subseteq todo
      /\ matrix[Col] \subseteq todo' \cup flagged \cup {i}
  BY <1>1, <1>2 DEF ReachInv
<1>5. Range(trail) = {}
  BY <1>2 DEF Range
<1> QED
  BY <1>1, <1>2, <1>3, <1>4, <1>5, MeetKeepsInv

\* The row on top of the trail, and those below it.
LEMMA TopOfTrail ==
  ASSUME LuInv, outcome = "factoring", trail # <<>>
  PROVE  /\ Last(trail) \in Range(trail) /\ Last(trail) \in Rows
         /\ Last(trail) \in flagged \cap pivotal
         /\ Len(trail) \in Nat /\ Len(trail) \in DOMAIN trail /\ Last(trail) = trail[Len(trail)]
         /\ \A r \in Range(trail) : place[r] <= place[Last(trail)]
<1>1. LuTypeOK /\ StackInv /\ trail \in Seq(Rows) /\ place \in [Rows -> Rows]
  BY DEF LuInv, SearchInv, LuTypeOK
<1>2. /\ Len(trail) \in Nat \ {0} /\ DOMAIN trail = 1..Len(trail)
      /\ Last(trail) = trail[Len(trail)] /\ Last(trail) \in Rows
  BY <1>1, FrontIs
<1>3. Len(trail) \in DOMAIN trail
  BY <1>2
<1>4. Last(trail) \in Range(trail)
  BY <1>2, <1>3 DEF Range
<1>5. Last(trail) \in flagged \cap pivotal
  BY <1>1, <1>4 DEF StackInv
<1>6. ASSUME NEW r \in Range(trail) PROVE place[r] <= place[Last(trail)]
  <2>1. PICK a \in 1..Len(trail) : r = trail[a]
    BY <1>2 DEF Range
  <2> DEFINE height == Len(trail)
  <2>2. a = height \/ a < height
    <3>1. height \in Nat /\ a \in 1..height
      BY <1>2
    <3> HIDE DEF height
    <3> QED
      BY <3>1
  <2>3. place[Last(trail)] \in Nat /\ place[r] \in Nat
    <3>1. \A m \in Rows : m \in Nat
      BY <1>1, LuTypes
    <3>2. r \in Rows
      BY <1>1, <1>2, <2>1
    <3> QED
      BY <1>1, <1>2, <3>1, <3>2
  <2>4. a < Len(trail) => place[trail[a]] < place[trail[Len(trail)]]
    BY <1>1, <1>2, <1>3, <2>1 DEF StackInv
  <2>5. CASE a = height
    BY <1>2, <2>1, <2>3, <2>5
  <2>6. CASE a < height
    BY <1>2, <2>1, <2>3, <2>4, <2>6
  <2> QED
    BY <2>2, <2>5, <2>6
<1> QED
  BY <1>2, <1>3, <1>4, <1>5, <1>6

\* The next entry of the column on top.
LEMMA ScanEntryKeepsInv == ASSUME LuInv, ScanEntry PROVE LuInv'
<1> DEFINE t == Last(trail)
           h == lower[place[t]][unscanned[t]]
           remaining == [unscanned EXCEPT ![t] = @ - 1]
<1>1. /\ trail # <<>> /\ unscanned[t] > 0 /\ Meet(h, remaining)
      /\ UNCHANGED <<factors, todo, eliminated>>
  BY DEF ScanEntry
<1>2. /\ LuTypeOK /\ FactorInv /\ outcome = "factoring" /\ ReachInv /\ StackInv /\ ScanInv
      /\ unscanned \in [Rows -> Nat] /\ trail \in Seq(Rows)
  BY <1>1 DEF LuInv, LuTypeOK, SearchInv
<1>3. t \in Range(trail) /\ t \in Rows /\ t \in flagged \cap pivotal
      /\ \A r \in Range(trail) : place[r] <= place[t]
  BY <1>1, <1>2, TopOfTrail
<1>4. unscanned[t] \in Nat /\ unscanned[t] \in 1..SearchLength(t) /\ SearchLength(t) \in Nat
  <2>1. unscanned[t] \in Nat /\ unscanned[t] <= SearchLength(t)
    BY <1>2, <1>3 DEF ScanInv
  <2>2. SearchLength(t) \in Nat
    BY <1>2, <1>3, SearchTypes
  <2> QED
    BY <1>1, <2>1, <2>2
<1>5. h \in Rows /\ h \in Lows(place[t]) /\ place[h] > place[t]
  BY <1>2, <1>3, <1>4, SearchTypes
<1>6. Range(trail) \subseteq Rows /\ \A r \in Rows : place[r] \in Nat
  <2>1. \A m \in Rows : m \in Nat
    BY <1>2, LuTypes
  <2> QED
    BY <1>2, <2>1 DEF LuTypeOK, Range
<1>7. \A r \in Range(trail) : place[r] < place[h]
  BY <1>3, <1>5, <1>6
<1>8. remaining \in [Rows -> Nat] /\ remaining[t] = unscanned[t] - 1
      /\ \A r \in Rows \ {t} : remaining[r] = unscanned[r]
  BY <1>1, <1>2, <1>3, <1>4
<1> HIDE DEF t, h, remaining
<1>9. ASSUME NEW r \in Range(trail)
      PROVE  /\ remaining[r] <= unscanned[r]
             /\ \A n \in (remaining[r] + 1)..SearchLength(r) : lower[place[r]][n] \in flagged \cup {h}
  <2>1. CASE r = t
    <3>1. remaining[t] <= unscanned[t] /\ remaining[t] + 1 = unscanned[t]
      BY <1>4, <1>8
    <3>2. ASSUME NEW n \in unscanned[t]..SearchLength(t)
          PROVE  lower[place[t]][n] \in flagged \cup {h}
      <4>1. n = unscanned[t] \/ n \in (unscanned[t] + 1)..SearchLength(t)
        BY <1>4
      <4> QED
        BY <1>2, <1>3, <4>1 DEF ScanInv, h
    <3> QED
      BY <2>1, <3>1, <3>2
  <2>2. CASE r # t
    <3>1. remaining[r] = unscanned[r] /\ unscanned[r] \in Nat
      BY <1>2, <1>6, <1>8, <2>2
    <3> QED
      BY <1>2, <3>1 DEF ScanInv
  <2> QED
    BY <2>1, <2>2
<1>10. matrix[Col] \subseteq todo' \cup flagged \cup {h} /\ todo' \subseteq todo
  BY <1>1, <1>2 DEF ReachInv
<1>11. \E r \in flagged \cap pivotal : h \in Lows(place[r])
  BY <1>3, <1>5
<1> QED
  BY <1>1, <1>2, <1>5, <1>7, <1>8, <1>9, <1>10, <1>11, MeetKeepsInv

\* A row whose column has been scanned is finished: what it was searched for is
\* at later places, so not on the trail.
LEMMA LeaveRowKeepsInv == ASSUME LuInv, LeaveRow PROVE LuInv'
<1> DEFINE t == Last(trail)
<1>1. /\ trail # <<>> /\ unscanned[t] = 0 /\ trail' = Front(trail)
      /\ eliminated' = <<t>> \o eliminated
      /\ UNCHANGED <<factors, todo, flagged, unscanned, lik>>
  BY DEF LeaveRow
<1>2. /\ LuTypeOK /\ FactorInv /\ outcome = "factoring" /\ ReachInv /\ StackInv /\ ScanInv
      /\ trail \in Seq(Rows) /\ eliminated \in Seq(Rows)
  BY <1>1 DEF LuInv, LuTypeOK, SearchInv
<1>3. t \in Range(trail) /\ t \in Rows /\ t \in flagged \cap pivotal
      /\ \A r \in Range(trail) : place[r] <= place[t]
  BY <1>1, <1>2, TopOfTrail
<1>4. /\ Front(trail) \in Seq(Rows) /\ Len(trail) \in Nat \ {0}
      /\ Len(Front(trail)) = Len(trail) - 1
      /\ \A n \in 1..(Len(trail) - 1) : Front(trail)[n] = trail[n]
      /\ t = trail[Len(trail)] /\ Range(trail) = Range(Front(trail)) \cup {t}
  BY <1>1, <1>2, FrontIs
<1>5. /\ eliminated' \in Seq(Rows) /\ Len(eliminated) \in Nat
      /\ Len(eliminated') = Len(eliminated) + 1 /\ eliminated'[1] = t
      /\ \A n \in 1..Len(eliminated) : eliminated'[n + 1] = eliminated[n]
      /\ \A n \in 2..(Len(eliminated) + 1) : eliminated'[n] = eliminated[n - 1]
      /\ Range(eliminated') = Range(eliminated) \cup {t}
  BY <1>1, <1>2, <1>3, InFrontIs
<1>6. /\ Col' = Col /\ pivotal' = pivotal /\ matrix' = matrix /\ place' = place
      /\ lower' = lower /\ outcome' = outcome /\ FactorInv'
      /\ \A r : SearchLength(r)' = SearchLength(r)
      /\ \A j : Lows(j)' = Lows(j)
  BY <1>1, <1>2, SameFactors
<1> HIDE DEF t
<1>7. DOMAIN trail = 1..Len(trail) /\ DOMAIN trail' = 1..(Len(trail) - 1)
      /\ DOMAIN eliminated = 1..Len(eliminated) /\ DOMAIN eliminated' = 1..(Len(eliminated) + 1)
  BY <1>1, <1>2, <1>4, <1>5
<1>8. \A r \in Rows : place[r] \in Nat
  <2>1. \A m \in Rows : m \in Nat
    BY <1>2, LuTypes
  <2> QED
    BY <1>2, <2>1 DEF LuTypeOK
<1>9. t \notin Range(trail')
  <2> SUFFICES ASSUME NEW a \in 1..(Len(trail) - 1), trail'[a] = t PROVE FALSE
    BY <1>7 DEF Range
  <2>1. a \in DOMAIN trail /\ Len(trail) \in DOMAIN trail /\ a < Len(trail) /\ trail[a] = t
    BY <1>1, <1>4, <1>7
  <2>2. place[t] < place[t]
    BY <1>2, <1>4, <2>1 DEF StackInv
  <2> QED
    BY <1>3, <1>8, <2>2
<1>10. t \notin Range(eliminated)
  BY <1>2, <1>3 DEF StackInv
<1>11. LuTypeOK'
  BY <1>1, <1>2, <1>4, <1>5 DEF LuTypeOK, factors
<1>12. ReachInv'
  BY <1>1, <1>2, <1>6 DEF ReachInv
<1>13. StackInv'
  <2>1. Range(trail') \cup Range(eliminated') = Range(trail) \cup Range(eliminated)
    BY <1>1, <1>4, <1>5
  <2>2. Range(trail') \cap Range(eliminated') = {}
    BY <1>1, <1>2, <1>4, <1>5, <1>9 DEF StackInv
  <2>3. OneToOne(eliminated')
    <3>1. OneToOne(eliminated)
      BY <1>2 DEF StackInv
    <3>2. \A m \in 1..Len(eliminated) : eliminated[m] # t
      BY <1>7, <1>10 DEF Range
    <3>3. \A m \in 1..(Len(eliminated) + 1) :
            m = 1 \/ (m \in 2..(Len(eliminated) + 1) /\ m - 1 \in 1..Len(eliminated))
      BY <1>5
    <3> SUFFICES ASSUME NEW m \in DOMAIN eliminated', NEW n \in DOMAIN eliminated',
                        eliminated'[m] = eliminated'[n]
                 PROVE  m = n
      BY DEF OneToOne
    <3>4. CASE m = 1 \/ n = 1
      BY <1>5, <1>7, <3>2, <3>3, <3>4
    <3>5. CASE m # 1 /\ n # 1
      <4>1. /\ m - 1 \in DOMAIN eliminated /\ n - 1 \in DOMAIN eliminated
            /\ eliminated[m - 1] = eliminated[n - 1]
        BY <1>5, <1>7, <3>3, <3>5
      <4>2. m - 1 = n - 1
        BY <3>1, <4>1 DEF OneToOne
      <4> QED
        BY <1>5, <1>7, <4>2
    <3> QED
      BY <3>4, <3>5
  <2>4. \A a, b \in DOMAIN trail' : a < b => place[trail'[a]] < place[trail'[b]]
    <3>1. \A a \in DOMAIN trail' : a \in DOMAIN trail /\ trail'[a] = trail[a]
      BY <1>1, <1>4, <1>7
    <3> QED
      BY <1>2, <3>1 DEF StackInv
  <2> QED
    BY <1>1, <1>2, <1>6, <2>1, <2>2, <2>3, <2>4 DEF StackInv
<1>14. ASSUME NEW i, NEW r, Before(eliminated, i, r) PROVE Before(eliminated', i, r)
  <2>1. PICK a, b \in 1..Len(eliminated) : a < b /\ eliminated[a] = i /\ eliminated[b] = r
    BY <1>7, <1>14 DEF Before
  <2>2. /\ a + 1 \in 1..(Len(eliminated) + 1) /\ b + 1 \in 1..(Len(eliminated) + 1)
        /\ a + 1 < b + 1
    BY <1>5, <2>1
  <2>3. eliminated'[a + 1] = i /\ eliminated'[b + 1] = r
    BY <1>5, <2>1
  <2> QED
    BY <1>7, <2>2, <2>3 DEF Before
<1>15. ASSUME NEW r \in Range(eliminated) PROVE Before(eliminated', t, r)
  <2>1. PICK b \in 1..Len(eliminated) : eliminated[b] = r
    BY <1>7 DEF Range
  <2>2. b + 1 \in 1..(Len(eliminated) + 1) /\ 1 \in 1..(Len(eliminated) + 1) /\ 1 < b + 1
    BY <1>5
  <2>3. eliminated'[b + 1] = r
    BY <1>5, <2>1
  <2> QED
    BY <1>5, <1>7, <2>2, <2>3 DEF Before
<1>16. ASSUME NEW n \in 1..SearchLength(t)
       PROVE  /\ lower[place[t]][n] \in flagged
              /\ lower[place[t]][n] \in pivotal => Before(eliminated', t, lower[place[t]][n])
  <2> DEFINE h == lower[place[t]][n]
  <2>1. h \in flagged
    <3>1. unscanned[t] + 1 = 1
      BY <1>1 DEF t
    <3> QED
      BY <1>2, <1>3, <3>1 DEF ScanInv
  <2>2. h \in Rows /\ place[h] > place[t]
    BY <1>2, <1>3, SearchTypes
  <2>3. h \notin Range(trail)
    BY <1>3, <1>8, <2>2
  <2>4. h \in pivotal => h \in Range(eliminated)
    BY <1>2, <2>1, <2>3 DEF StackInv
  <2> QED
    BY <1>15, <2>1, <2>4
<1>17. ScanInv'
  <2>1. \A i \in Range(trail') : i \in Range(trail)
    BY <1>1, <1>4
  <2>2. ASSUME NEW i \in Range(eliminated'), NEW n \in 1..SearchLength(i)
        PROVE  /\ lower[place[i]][n] \in flagged
               /\ lower[place[i]][n] \in pivotal => Before(eliminated', i, lower[place[i]][n])
    <3>1. CASE i = t
      BY <1>16, <3>1
    <3>2. CASE i # t
      BY <1>2, <1>5, <1>14, <3>2 DEF ScanInv
    <3> QED
      BY <3>1, <3>2
  <2>3. \A i \in Range(trail') :
          /\ unscanned[i] <= SearchLength(i)
          /\ \A n \in (unscanned[i] + 1)..SearchLength(i) : lower[place[i]][n] \in flagged
    BY <1>2, <2>1 DEF ScanInv
  <2> QED
    BY <1>1, <1>6, <2>2, <2>3 DEF ScanInv
<1> QED
  BY <1>6, <1>11, <1>12, <1>13, <1>17 DEF LuInv, SearchInv

\* What is left alone when the block turns out to be singular.
LEMMA SingularKeepsInv == ASSUME LuInv, Singular PROVE LuInv'
<1>1. /\ UNCHANGED <<matrix, prow, place, pivotal, lower, upper, pruned>>
      /\ UNCHANGED <<todo, flagged, trail, unscanned, eliminated, lik>>
      /\ outcome' = "singular" /\ trail = <<>> /\ LuTypeOK /\ FactorInv
  BY DEF Singular, Searched, LuInv
<1>2. LuTypeOK'
  BY <1>1 DEF LuTypeOK
<1>3. \A j : Lows(j)' = Lows(j)
  BY <1>1 DEF Lows
<1>4. \A j : FilledRows(j)' = FilledRows(j)
  BY <1>1, <1>3 DEF FilledRows
<1>5. \A k : (ColumnInv(k) <=> ColumnInv(k)') /\ (PruneInv(k) <=> PruneInv(k)')
  BY <1>1, <1>3, <1>4 DEF ColumnInv, PruneInv
<1>6. FactorInv'
  BY <1>1, <1>5 DEF FactorInv, PlacesInv
<1> QED
  BY <1>1, <1>2, <1>6 DEF LuInv

\* In a list without repetitions what comes before is an order.
LEMMA BeforeIsTransitive ==
  ASSUME NEW S, NEW s \in Seq(S), OneToOne(s), NEW i, NEW j, NEW k,
         Before(s, i, j), Before(s, j, k)
  PROVE  Before(s, i, k)
<1>1. DOMAIN s = 1..Len(s) /\ Len(s) \in Nat
  OBVIOUS
<1>2. PICK a, b \in DOMAIN s : a < b /\ s[a] = i /\ s[b] = j
  BY DEF Before
<1>3. PICK c, d \in DOMAIN s : c < d /\ s[c] = j /\ s[d] = k
  BY DEF Before
<1>4. b = c
  BY <1>2, <1>3 DEF OneToOne
<1>5. a < d
  BY <1>1, <1>2, <1>3, <1>4
<1> QED
  BY <1>2, <1>3, <1>5 DEF Before

\* All of a finished row's column is flagged, and its pivotal rows come after it:
\* what is not searched is in the column of a pivot further on.
LEMMA ReachIsClosed ==
  ASSUME LuInv, outcome = "factoring", trail = <<>>
  PROVE  \A i \in Range(eliminated) : \A r \in Lows(place[i]) :
           r \in flagged /\ (r \in pivotal => Before(eliminated, i, r))
<1> DEFINE Complete(i) == \A r \in Lows(place[i]) :
                          r \in flagged /\ (r \in pivotal => Before(eliminated, i, r))
           K == Len(lower)
           T == {m \in Nat : \A i \in Range(eliminated) : place[i] + m > K => Complete(i)}
<1>1. /\ LuTypeOK /\ FactorInv /\ StackInv /\ ScanInv /\ K \in Nat
      /\ eliminated \in Seq(Rows) /\ OneToOne(eliminated)
  BY LuTypes DEF LuInv, SearchInv, StackInv, LuTypeOK
<1>2. ASSUME NEW i \in Range(eliminated)
      PROVE  i \in pivotal /\ place[i] \in 1..K
  <2>1. i \in pivotal
    BY <1>1 DEF StackInv
  <2> QED
    BY <1>1, <2>1, SearchTypes
<1> HIDE DEF K, Complete
<1>3. 0 \in T
  BY <1>1, <1>2
<1>4. ASSUME NEW m \in T PROVE m + 1 \in T
  <2> SUFFICES ASSUME NEW i \in Range(eliminated), place[i] + (m + 1) > K PROVE Complete(i)
    OBVIOUS
  <2> DEFINE k == place[i]
  <2>1. i \in pivotal /\ k \in 1..K
    BY <1>2
  <2>2. /\ k \in DOMAIN lower /\ SearchLength(i) \in Nat
        /\ \A n \in 1..SearchLength(i) : place[lower[k][n]] > k
    BY <1>1, <2>1, SearchTypes
  <2>3. /\ Len(lower[k]) \in Nat /\ Lows(k) = {lower[k][n] : n \in 1..Len(lower[k])}
        /\ pruned[k] \in Nat \cup {NotPruned} /\ DOMAIN lower[k] = 1..Len(lower[k])
    BY <1>1, <2>1, LuTypes DEF K
  <2>4. PruneInv(k)
    BY <1>1, <2>2 DEF FactorInv
  <2>5. ASSUME NEW n \in 1..SearchLength(i)
        PROVE  /\ lower[k][n] \in flagged
               /\ lower[k][n] \in pivotal => Before(eliminated, i, lower[k][n])
    BY <1>1 DEF ScanInv
  <2>6. ASSUME NEW n \in 1..Len(lower[k]), n \notin 1..SearchLength(i)
        PROVE  /\ lower[k][n] \in flagged
               /\ lower[k][n] \in pivotal => Before(eliminated, i, lower[k][n])
    <3> DEFINE r == lower[k][n]
    <3>1. pruned[k] # NotPruned /\ SearchLength(i) = pruned[k] /\ n > pruned[k]
      <4>1. SearchLength(i) # Len(lower[k])
        BY <2>6
      <4>2. pruned[k] # NotPruned /\ SearchLength(i) = pruned[k]
        BY <4>1 DEF SearchLength
      <4> QED
        BY <2>2, <2>3, <2>6, <4>2
    <3>2. PICK l \in 1..pruned[k] :
            /\ lower[k][l] \in pivotal
            /\ \A e \in DOMAIN lower[k] : e > pruned[k] => lower[k][e] \in Lows(place[lower[k][l]])
      BY <2>4, <3>1 DEF PruneInv
    <3> DEFINE w == lower[k][l]
    <3>3. r \in Lows(place[w]) /\ w \in pivotal
      BY <2>3, <3>1, <3>2
    <3>4. Before(eliminated, i, w) /\ place[w] > k
      BY <2>2, <2>5, <3>1, <3>2
    <3>5. w \in Range(eliminated)
      BY <3>4 DEF Before, Range
    <3>6. place[w] \in Nat
      BY <1>2, <3>5
    <3>7. place[w] + m > K
      BY <1>1, <2>1, <3>4, <3>6
    <3>8. Complete(w)
      BY <3>5, <3>7
    <3> HIDE DEF w, r
    <3>9. r \in flagged /\ (r \in pivotal => Before(eliminated, w, r))
      BY <3>3, <3>8 DEF Complete
    <3>10. r \in pivotal => Before(eliminated, i, r)
      BY <1>1, <3>4, <3>9, BeforeIsTransitive
    <3> QED
      BY <3>9, <3>10 DEF r
  <2>7. \A r \in Lows(k) : r \in flagged /\ (r \in pivotal => Before(eliminated, i, r))
    <3> TAKE r \in Lows(k)
    <3>1. PICK n \in 1..Len(lower[k]) : r = lower[k][n]
      BY <2>3
    <3> QED
      BY <2>5, <2>6, <3>1
  <2> QED
    BY <2>7 DEF Complete
<1>5. T = Nat
  BY <1>3, <1>4, Induct
<1>6. ASSUME NEW i \in Range(eliminated) PROVE Complete(i)
  <2>1. K \in T
    BY <1>1, <1>5
  <2>2. place[i] + K > K
    BY <1>1, <1>2
  <2> QED
    BY <2>1, <2>2
<1> QED
  BY <1>6 DEF Complete

\* The pivot takes the place of the column, and the row that had it the pivot's:
\* rows that are not pivotal never come before.
LEMMA PivotTakesItsPlace ==
  ASSUME LuTypeOK, PlacesInv, outcome = "factoring", NEW pivot \in Rows \ pivotal,
         prow' = IF Displaced(pivot)
                 THEN [prow EXCEPT ![place[pivot]] = prow[Col], ![Col] = pivot]
                 ELSE [prow EXCEPT ![Col] = pivot],
         place' = IF Displaced(pivot)
                  THEN [place EXCEPT ![prow[Col]] = place[pivot], ![pivot] = Col]
                  ELSE [place EXCEPT ![pivot] = Col]
  PROVE  /\ prow' \in [Rows -> Rows] /\ place' \in [Rows -> Rows]
         /\ \A k \in Rows : place'[prow'[k]] = k
         /\ \A i \in Rows : prow'[place'[i]] = i
         /\ place'[pivot] = Col /\ prow'[Col] = pivot
         /\ \A k \in 1..Len(lower) : prow'[k] = prow[k]
         /\ \A i \in pivotal : place'[i] = place[i] /\ place[i] <= Len(lower)
         /\ \A i \in Rows \ (pivotal \cup {pivot}) : place'[i] > Col
<1> DEFINE K == Len(lower)
           c == Col
           d == prow[c]
           b == place[pivot]
<1>1. /\ K \in Nat /\ c = K + 1 /\ c \in Rows /\ BlockSize \in Nat /\ Rows = 1..BlockSize
      /\ prow \in [Rows -> Rows] /\ place \in [Rows -> Rows]
  BY LuTypes DEF LuTypeOK
<1>2. /\ \A k \in Rows : place[prow[k]] = k
      /\ \A i \in Rows : prow[place[i]] = i
      /\ pivotal = {i \in Rows : place[i] <= K}
  BY DEF PlacesInv
<1>3. d \in Rows /\ b \in Rows /\ place[d] = c /\ prow[b] = pivot /\ b > K
  BY <1>1, <1>2
<1>4. d \notin pivotal
  BY <1>1, <1>2, <1>3
<1>5. Displaced(pivot) <=> d # pivot
  BY <1>4 DEF Displaced
<1>6. d = pivot => b = c
  BY <1>3
<1>7. prow[c] = d /\ place[pivot] = b
  OBVIOUS
<1> HIDE DEF K, c, d, b
<1>8. \A k \in Rows : prow'[k] = IF k = c THEN pivot ELSE IF k = b THEN d ELSE prow[k]
  <2>1. CASE d = pivot
    <3>1. prow' = [prow EXCEPT ![c] = pivot]
      BY <1>5, <2>1 DEF c
    <3> QED
      BY <1>1, <1>6, <2>1, <3>1
  <2>2. CASE d # pivot
    <3>1. prow' = [prow EXCEPT ![b] = d, ![c] = pivot]
      BY <1>5, <2>2 DEF b, c, d
    <3> QED
      BY <1>1, <1>3, <3>1
  <2> QED
    BY <2>1, <2>2
<1>9. \A i \in Rows : place'[i] = IF i = pivot THEN c ELSE IF i = d THEN b ELSE place[i]
  <2>1. CASE d = pivot
    <3>1. place' = [place EXCEPT ![pivot] = c]
      BY <1>5, <2>1 DEF c
    <3> QED
      BY <1>1, <2>1, <3>1
  <2>2. CASE d # pivot
    <3>1. place' = [place EXCEPT ![d] = b, ![pivot] = c]
      BY <1>5, <2>2 DEF b, c, d
    <3> QED
      BY <1>1, <1>3, <3>1
  <2> QED
    BY <2>1, <2>2
<1>10. prow' \in [Rows -> Rows] /\ place' \in [Rows -> Rows]
  BY <1>1, <1>3 DEF b, c, d
<1>11. ASSUME NEW k \in Rows PROVE place'[prow'[k]] = k
  <2>1. CASE k = c
    BY <1>8, <1>9, <2>1
  <2>2. CASE k # c /\ k = b
    <3>1. prow'[k] = d /\ d # pivot
      BY <1>8, <1>3, <1>7, <1>2, <1>1, <2>2
    <3> QED
      BY <1>3, <1>9, <2>2, <3>1
  <2>3. CASE k # c /\ k # b
    <3>1. prow'[k] = prow[k] /\ prow[k] \in Rows /\ place[prow[k]] = k
      BY <1>1, <1>2, <1>8, <2>3
    <3>2. prow[k] # pivot /\ prow[k] # d
      BY <1>3, <1>7, <2>3, <3>1
    <3> QED
      BY <1>9, <3>1, <3>2
  <2> QED
    BY <2>1, <2>2, <2>3
<1>12. ASSUME NEW i \in Rows PROVE prow'[place'[i]] = i
  <2>1. CASE i = pivot
    BY <1>1, <1>8, <1>9, <2>1
  <2>2. CASE i # pivot /\ i = d
    <3>1. place'[i] = b /\ b # c
      BY <1>3, <1>9, <1>7, <2>2
    <3> QED
      BY <1>3, <1>8, <2>2, <3>1
  <2>3. CASE i # pivot /\ i # d
    <3>1. place'[i] = place[i] /\ place[i] \in Rows /\ prow[place[i]] = i
      BY <1>1, <1>2, <1>9, <2>3
    <3>2. place[i] # c /\ place[i] # b
      BY <1>3, <1>7, <2>3, <3>1
    <3> QED
      BY <1>8, <3>1, <3>2
  <2> QED
    BY <2>1, <2>2, <2>3
<1>13. place'[pivot] = c /\ prow'[c] = pivot
  BY <1>1, <1>8, <1>9
<1>14. \A k \in 1..K : prow'[k] = prow[k]
  <2> TAKE k \in 1..K
  <2>1. k \in Rows /\ k # c /\ k # b
    BY <1>1, <1>3
  <2> QED
    BY <1>8, <2>1
<1>15. \A i \in pivotal : place'[i] = place[i] /\ place[i] <= K
  BY <1>2, <1>4, <1>9
<1>16. \A i \in Rows \ (pivotal \cup {pivot}) : place'[i] > c
  <2> TAKE i \in Rows \ (pivotal \cup {pivot})
  <2>1. place[i] \in Rows /\ ~(place[i] <= K)
    BY <1>1, <1>2
  <2>4. ASSUME NEW v \in Rows, ~(v <= K), v # c PROVE v > c
    <3>1. v \in Nat /\ K \in Nat /\ c = K + 1
      BY <1>1
    <3> QED
      BY <2>4, <3>1
  <2>5. ~(b <= K)
    <3>1. b \in Nat /\ b > K /\ K \in Nat
      BY <1>1, <1>3
    <3> QED
      BY <3>1
  <2>2. CASE i = d
    <3>1. b # c
      BY <1>3, <1>7, <2>2
    <3> QED
      BY <1>3, <1>9, <2>2, <2>4, <2>5, <3>1
  <2>3. CASE i # d
    <3>1. place[i] # c
      BY <1>2, <1>7, <2>3
    <3>2. place'[i] = place[i]
      BY <1>9, <2>3
    <3> QED
      BY <2>1, <2>4, <3>1, <3>2
  <2> QED
    BY <2>2, <2>3
<1> QED
  BY <1>10, <1>11, <1>12, <1>13, <1>14, <1>15, <1>16 DEF K, c

\* What a column adds, with this row as its pivot, and what it does to those
\* before: they keep their rows, and some are cut behind the pivotal ones.
AddsColumn(pivot) ==
  /\ lower' \in Seq(Seq(Rows)) /\ Len(lower') = Len(lower) + 1
  /\ upper' \in Seq(Seq(Rows)) /\ Len(upper') = Len(lower) + 1
  /\ pruned' \in Seq(Nat \cup {NotPruned}) /\ Len(pruned') = Len(lower) + 1
  /\ OneToOne(lower'[Col]) /\ Range(lower'[Col]) = Range(lik) \ {pivot}
  /\ upper'[Col] = [m \in DOMAIN eliminated |-> place[eliminated[m]]]
  /\ pruned'[Col] = NotPruned
CutsColumn(j, pivot) ==
  /\ j \in {place[i] : i \in Range(eliminated)} /\ pivot \in Lows(j)
  /\ pruned'[j] \in 0..Len(lower[j])
  /\ \A m \in 1..Len(lower[j]) : lower'[j][m] \in pivotal' <=> m <= pruned'[j]
KeepsColumn(j, pivot) ==
  /\ upper'[j] = upper[j]
  /\ Range(lower'[j]) = Lows(j) /\ Len(lower'[j]) = Len(lower[j])
  /\ OneToOne(lower[j]) => OneToOne(lower'[j])
  /\ (lower'[j] = lower[j] /\ pruned'[j] = pruned[j]) \/ CutsColumn(j, pivot)

\* A step adds a column with one of the rows found as its pivot.
LEMMA ColumnIsAdded ==
  ASSUME LuInv, FactorColumn
  PROVE  \E pivot \in Range(lik) :
           /\ AddsColumn(pivot) /\ \A j \in 1..Len(lower) : KeepsColumn(j, pivot)
           /\ pivotal' = pivotal \cup {pivot}
           /\ prow' = IF Displaced(pivot)
                      THEN [prow EXCEPT ![place[pivot]] = prow[Col], ![Col] = pivot]
                      ELSE [prow EXCEPT ![Col] = pivot]
           /\ place' = IF Displaced(pivot)
                       THEN [place EXCEPT ![prow[Col]] = place[pivot], ![pivot] = Col]
                       ELSE [place EXCEPT ![pivot] = Col]
<1> DEFINE ucol == [m \in DOMAIN eliminated |-> place[eliminated[m]]]
           Parted(pivot) == [j \in ToPrune(pivot, ucol) |-> Partition(lower[j], pivotal')]
<1>1. PICK n \in DOMAIN lik :
        LET pivot == lik[n] IN
        /\ prow' = IF Displaced(pivot)
                   THEN [prow EXCEPT ![place[pivot]] = prow[Col], ![Col] = pivot]
                   ELSE [prow EXCEPT ![Col] = pivot]
        /\ place' = IF Displaced(pivot)
                    THEN [place EXCEPT ![prow[Col]] = place[pivot], ![pivot] = Col]
                    ELSE [place EXCEPT ![pivot] = Col]
        /\ pivotal' = pivotal \cup {pivot}
        /\ lower' = Append([j \in DOMAIN lower |->
                              IF j \in ToPrune(pivot, ucol) THEN Parted(pivot)[j].rows
                              ELSE lower[j]], Without(lik, n))
        /\ upper' = Append(upper, ucol)
        /\ pruned' = Append([j \in DOMAIN pruned |->
                               IF j \in ToPrune(pivot, ucol) THEN Parted(pivot)[j].tail - 1
                               ELSE pruned[j]], NotPruned)
  BY DEF FactorColumn
<1> DEFINE pivot == lik[n]
           cut == ToPrune(pivot, ucol)
           K == Len(lower)
<1>2. /\ LuTypeOK /\ FactorInv /\ StackInv /\ lik \in Seq(Rows) /\ eliminated \in Seq(Rows)
      /\ OneToOne(lik) /\ lower \in Seq(Seq(Rows)) /\ upper \in Seq(Seq(Rows))
      /\ pruned \in Seq(Nat \cup {NotPruned}) /\ Len(upper) = K /\ Len(pruned) = K
  BY DEF LuInv, SearchInv, StackInv, LuTypeOK, FactorColumn
<1>3. /\ K \in Nat /\ Col = K + 1 /\ DOMAIN lower = 1..K /\ DOMAIN pruned = 1..K
      /\ \A j \in 1..K : lower[j] \in Seq(Rows) /\ pruned[j] \in Nat \cup {NotPruned}
  BY <1>2, LuTypes
<1>4. /\ ucol \in Seq(Rows) /\ Range(ucol) = {place[i] : i \in Range(eliminated)}
      /\ Range(ucol) \subseteq 1..K
  <2>1. DOMAIN eliminated = 1..Len(eliminated) /\ Len(eliminated) \in Nat
    BY <1>2
  <2>2. \A m \in DOMAIN eliminated : eliminated[m] \in Range(eliminated)
    BY DEF Range
  <2>3. ASSUME NEW i \in Range(eliminated) PROVE place[i] \in 1..K /\ place[i] \in Rows
    <3>1. i \in pivotal
      BY <1>2 DEF StackInv
    <3>2. i \in Rows
      BY <1>2, <3>1, SearchTypes
    <3> QED
      BY <1>2, <3>1, <3>2, SearchTypes DEF LuTypeOK
  <2>4. Range(ucol) = {place[i] : i \in Range(eliminated)}
    BY DEF Range
  <2>5. ucol \in Seq(Rows)
    <3>1. ucol = [m \in 1..Len(eliminated) |-> place[eliminated[m]]]
      BY <2>1
    <3>2. \A m \in 1..Len(eliminated) : place[eliminated[m]] \in Rows
      BY <2>1, <2>2, <2>3
    <3> QED
      BY <2>1, <3>1, <3>2
  <2> QED
    BY <2>3, <2>4, <2>5
<1>5. pivot \in Range(lik)
  BY DEF Range
<1>6. /\ Without(lik, n) \in Seq(Rows) /\ OneToOne(Without(lik, n))
      /\ Range(Without(lik, n)) = Range(lik) \ {pivot}
  BY <1>2, WithoutIs
<1> DEFINE f == [j \in 1..K |-> IF j \in cut THEN Parted(pivot)[j].rows ELSE lower[j]]
           g == [j \in 1..K |-> IF j \in cut THEN Parted(pivot)[j].tail - 1 ELSE pruned[j]]
<1>7. \A j \in cut : /\ j \in 1..K /\ pivot \in Lows(j) /\ j \in Range(ucol)
                     /\ Parted(pivot)[j] = Partition(lower[j], pivotal')
  BY <1>4 DEF ToPrune, Lows
<1>8. lower' = Append(f, Without(lik, n)) /\ pruned' = Append(g, NotPruned)
  BY <1>1, <1>3
<1>9. /\ pivotal' = pivotal \cup {pivot} /\ upper' = Append(upper, ucol)
      /\ prow' = IF Displaced(pivot)
                 THEN [prow EXCEPT ![place[pivot]] = prow[Col], ![Col] = pivot]
                 ELSE [prow EXCEPT ![Col] = pivot]
      /\ place' = IF Displaced(pivot)
                  THEN [place EXCEPT ![prow[Col]] = place[pivot], ![pivot] = Col]
                  ELSE [place EXCEPT ![pivot] = Col]
  BY <1>1
<1> HIDE DEF pivot, K, cut, Parted, ucol
<1>10. ASSUME NEW j \in 1..K
       PROVE  /\ f[j] \in Seq(Rows) /\ Range(f[j]) = Lows(j) /\ Len(f[j]) = Len(lower[j])
              /\ OneToOne(lower[j]) => OneToOne(f[j])
              /\ g[j] \in Nat \cup {NotPruned}
              /\ \/ f[j] = lower[j] /\ g[j] = pruned[j]
                 \/ /\ j \in cut /\ g[j] \in 0..Len(lower[j])
                    /\ \A m \in 1..Len(lower[j]) : f[j][m] \in pivotal' <=> m <= g[j]
  <2>1. CASE j \in cut
    <3> DEFINE p == Partition(lower[j], pivotal')
    <3>1. f[j] = p.rows /\ g[j] = p.tail - 1
      BY <1>7, <2>1
    <3>2. lower[j] \in Seq(Rows) /\ Len(lower[j]) \in Nat
      BY <1>3
    <3>3. /\ p.rows \in Seq(Rows) /\ Len(p.rows) = Len(lower[j]) /\ Range(p.rows) = Range(lower[j])
          /\ OneToOne(lower[j]) => OneToOne(p.rows)
          /\ p.tail - 1 \in 0..Len(lower[j])
          /\ \A m \in 1..Len(lower[j]) : p.rows[m] \in pivotal' <=> m <= p.tail - 1
      BY <3>2, PartitionIs
    <3> HIDE DEF p, f, g
    <3> QED
      BY <2>1, <3>1, <3>2, <3>3 DEF Lows
  <2>2. CASE j \notin cut
    <3>1. f[j] = lower[j] /\ g[j] = pruned[j]
      BY <2>2
    <3> HIDE DEF f, g
    <3> QED
      BY <1>3, <3>1 DEF Lows
  <2> QED
    BY <2>1, <2>2
<1>11. /\ \A R : (\A j \in 1..K : f[j] \in R) => f \in Seq(R) /\ Len(f) = K
       /\ \A R : (\A j \in 1..K : g[j] \in R) => g \in Seq(R) /\ Len(g) = K
  BY <1>3
<1> HIDE DEF f, g
<1>12. /\ lower' \in Seq(Seq(Rows)) /\ Len(lower') = K + 1 /\ lower'[K + 1] = Without(lik, n)
       /\ \A j \in 1..K : lower'[j] = f[j]
  <2> DEFINE R == Seq(Rows)
  <2>1. Without(lik, n) \in R /\ \A j \in 1..K : f[j] \in R
    BY <1>6, <1>10
  <2> HIDE DEF R
  <2>2. f \in Seq(R) /\ Len(f) = K
    BY <1>11, <2>1
  <2>3. /\ lower' \in Seq(R) /\ Len(lower') = Len(f) + 1 /\ lower'[Len(f) + 1] = Without(lik, n)
        /\ \A j \in 1..Len(f) : lower'[j] = f[j]
    BY <1>8, <2>1, <2>2, AppendIs
  <2> QED
    BY <2>2, <2>3 DEF R
<1>13. /\ pruned' \in Seq(Nat \cup {NotPruned}) /\ Len(pruned') = K + 1
       /\ pruned'[K + 1] = NotPruned /\ \A j \in 1..K : pruned'[j] = g[j]
  <2> DEFINE R == Nat \cup {NotPruned}
  <2>1. NotPruned \in R /\ \A j \in 1..K : g[j] \in R
    BY <1>10
  <2> HIDE DEF R
  <2>2. g \in Seq(R) /\ Len(g) = K
    BY <1>11, <2>1
  <2>3. /\ pruned' \in Seq(R) /\ Len(pruned') = Len(g) + 1 /\ pruned'[Len(g) + 1] = NotPruned
        /\ \A j \in 1..Len(g) : pruned'[j] = g[j]
    BY <1>8, <2>1, <2>2, AppendIs
  <2> QED
    BY <2>2, <2>3 DEF R
<1>14. /\ upper' \in Seq(Seq(Rows)) /\ Len(upper') = K + 1 /\ upper'[K + 1] = ucol
       /\ \A j \in 1..K : upper'[j] = upper[j]
  <2> DEFINE R == Seq(Rows)
  <2>1. upper \in Seq(R) /\ ucol \in R
    BY <1>2, <1>4
  <2> HIDE DEF R
  <2>2. /\ upper' \in Seq(R) /\ Len(upper') = Len(upper) + 1 /\ upper'[Len(upper) + 1] = ucol
        /\ \A j \in 1..Len(upper) : upper'[j] = upper[j]
    BY <1>9, <2>1, AppendIs
  <2> QED
    BY <1>2, <2>2 DEF R
<1>15. AddsColumn(pivot)
  BY <1>3, <1>6, <1>12, <1>13, <1>14 DEF AddsColumn, K, ucol
<1>16. ASSUME NEW j \in 1..K PROVE KeepsColumn(j, pivot)
  <2>1. lower'[j] = f[j] /\ pruned'[j] = g[j] /\ upper'[j] = upper[j]
    BY <1>12, <1>13, <1>14
  <2>2. CASE f[j] = lower[j] /\ g[j] = pruned[j]
    BY <1>10, <2>1, <2>2 DEF KeepsColumn
  <2>3. CASE /\ j \in cut /\ g[j] \in 0..Len(lower[j])
             /\ \A m \in 1..Len(lower[j]) : f[j][m] \in pivotal' <=> m <= g[j]
    <3>1. j \in {place[i] : i \in Range(eliminated)} /\ pivot \in Lows(j)
      BY <1>4, <1>7, <2>3
    <3>2. CutsColumn(j, pivot)
      BY <2>1, <2>3, <3>1 DEF CutsColumn
    <3> QED
      BY <1>10, <2>1, <3>2 DEF KeepsColumn
  <2> QED
    BY <1>10, <2>2, <2>3
<1> QED
  BY <1>5, <1>9, <1>15, <1>16 DEF K

\* The new column is what IsFactor asks for, those before stay so, and a column
\* that was cut finds the rest in the new one.
LEMMA FactorColumnKeepsInv == ASSUME LuInv, FactorColumn PROVE LuInv'
<1> SUFFICES ASSUME NEW K \in Nat, NEW c \in Nat, K = Len(lower), c = K + 1
             PROVE  LuInv'
  <2>1. LuTypeOK
    BY DEF LuInv
  <2>2. Len(lower) \in Nat
    BY <2>1, LuTypes
  <2> QED
    BY <2>2
<1>1. /\ LuTypeOK /\ FactorInv /\ PlacesInv /\ SearchInv /\ ReachInv /\ StackInv /\ ScanInv
      /\ outcome = "factoring" /\ trail = <<>> /\ todo = {}
  BY DEF LuInv, FactorInv, SearchInv, FactorColumn, Searched
<1>2. PICK pivot \in Range(lik) :
        /\ AddsColumn(pivot) /\ \A j \in 1..K : KeepsColumn(j, pivot)
        /\ pivotal' = pivotal \cup {pivot}
        /\ prow' = IF Displaced(pivot)
                   THEN [prow EXCEPT ![place[pivot]] = prow[Col], ![Col] = pivot]
                   ELSE [prow EXCEPT ![Col] = pivot]
        /\ place' = IF Displaced(pivot)
                    THEN [place EXCEPT ![prow[Col]] = place[pivot], ![pivot] = Col]
                    ELSE [place EXCEPT ![pivot] = Col]
  BY ColumnIsAdded
<1>3. /\ flagged' = {} /\ eliminated' = <<>> /\ lik' = <<>> /\ trail' = <<>>
      /\ UNCHANGED <<matrix, unscanned>>
      /\ IF Col = BlockSize THEN outcome' = "done" /\ todo' = todo
         ELSE outcome' = "factoring" /\ todo' = matrix[Col + 1]
  BY <1>1 DEF FactorColumn
<1>4. /\ K \in Nat /\ Col = c /\ c \in Rows /\ BlockSize \in Nat /\ Rows = 1..BlockSize
      /\ DOMAIN lower = 1..K
      /\ \A j \in 1..K :
           /\ lower[j] \in Seq(Rows) /\ Len(lower[j]) \in Nat /\ DOMAIN lower[j] = 1..Len(lower[j])
           /\ Lows(j) \subseteq Rows /\ Range(upper[j]) \subseteq Rows
           /\ Lows(j) = {lower[j][n] : n \in 1..Len(lower[j])}
           /\ pruned[j] \in Nat \cup {NotPruned}
  BY <1>1, LuTypes
<1>5. /\ eliminated \in Seq(Rows) /\ lik \in Seq(Rows) /\ matrix \in [Rows -> SUBSET Rows]
      /\ place \in [Rows -> Rows] /\ prow \in [Rows -> Rows] /\ flagged \subseteq Rows
  BY <1>1 DEF LuTypeOK
<1>6. /\ Range(trail) = {} /\ flagged \cap pivotal = Range(eliminated)
      /\ flagged \ pivotal = Range(lik) /\ OneToOne(eliminated)
      /\ matrix[c] \subseteq flagged
  BY <1>1, <1>4 DEF StackInv, ReachInv, Range
<1>7. pivot \in Rows \ pivotal /\ pivot \in flagged
  BY <1>5, <1>6
<1>8. /\ prow' \in [Rows -> Rows] /\ place' \in [Rows -> Rows]
      /\ \A k \in Rows : place'[prow'[k]] = k
      /\ \A i \in Rows : prow'[place'[i]] = i
      /\ place'[pivot] = c /\ prow'[c] = pivot
      /\ \A k \in 1..K : prow'[k] = prow[k]
      /\ \A i \in pivotal : place'[i] = place[i] /\ place[i] <= K
      /\ \A i \in Rows \ (pivotal \cup {pivot}) : place'[i] > c
  BY <1>1, <1>2, <1>4, <1>7, PivotTakesItsPlace
<1>9. /\ lower' \in Seq(Seq(Rows)) /\ Len(lower') = c
      /\ upper' \in Seq(Seq(Rows)) /\ Len(upper') = c
      /\ pruned' \in Seq(Nat \cup {NotPruned}) /\ Len(pruned') = c
      /\ OneToOne(lower'[c]) /\ Range(lower'[c]) = Range(lik) \ {pivot}
      /\ upper'[c] = [m \in DOMAIN eliminated |-> place[eliminated[m]]]
      /\ pruned'[c] = NotPruned
  BY <1>2, <1>4 DEF AddsColumn
<1>10. \A i \in Range(eliminated) : \A r \in Lows(place[i]) :
         r \in flagged /\ (r \in pivotal => Before(eliminated, i, r))
  BY <1>1, ReachIsClosed
<1>11. \A i \in Range(eliminated) : /\ i \in pivotal /\ i \in Rows /\ place[i] \in 1..K
                                    /\ prow[place[i]] = i
  <2> TAKE i \in Range(eliminated)
  <2>1. i \in pivotal
    BY <1>6
  <2> QED
    BY <1>1, <2>1, SearchTypes
<1>12. DOMAIN lower' = 1..c /\ 1..c = 1..K \cup {c} /\ c = K + 1 /\ c > K
  <2>1. c = K + 1 /\ c > K /\ 1..c = 1..K \cup {c}
    OBVIOUS
  <2>2. DOMAIN lower' = 1..Len(lower')
    BY <1>9
  <2> QED
    BY <1>9, <2>1, <2>2
<1>13. ASSUME NEW j \in 1..K
       PROVE  /\ Range(lower'[j]) = Lows(j) /\ upper'[j] = upper[j] /\ Len(lower'[j]) = Len(lower[j])
              /\ OneToOne(lower[j]) => OneToOne(lower'[j])
  BY <1>2 DEF KeepsColumn, Lows
<1>14. Range(lower'[c]) = Range(lik) \ {pivot} /\ Range(lower'[c]) \subseteq flagged
  BY <1>6, <1>9 DEF Lows
<1>15. /\ Range(upper'[c]) = {place[i] : i \in Range(eliminated)}
       /\ DOMAIN upper'[c] = DOMAIN eliminated
       /\ \A m \in DOMAIN eliminated : /\ upper'[c][m] = place[eliminated[m]]
                                       /\ eliminated[m] \in Range(eliminated)
  BY <1>9 DEF Range
<1>16. \A i \in Range(eliminated) : prow'[place[i]] = i /\ Range(lower'[place[i]]) = Lows(place[i])
  BY <1>8, <1>11, <1>13
<1>17. FilledRows(c)' = flagged
  <2>1. {prow'[j] : j \in Range(upper'[c])} = Range(eliminated)
    BY <1>15, <1>16
  <2>2. FilledRows(c)' = {prow'[j] : j \in Range(upper'[c])} \cup {prow'[c]} \cup Range(lower'[c])
    BY DEF FilledRows, Lows
  <2>3. Range(eliminated) \cup {pivot} \cup (Range(lik) \ {pivot}) = flagged
    BY <1>6, <1>7
  <2>4. prow'[c] = pivot /\ Range(lower'[c]) = Range(lik) \ {pivot}
    BY <1>8, <1>14
  <2> QED
    BY <2>1, <2>2, <2>3, <2>4
<1>18. PlacesInv'
  <2>1. \A i \in Rows : i \in pivotal' <=> place'[i] <= c
    <3> TAKE i \in Rows
    <3>1. \A v \in Rows : v \in Nat
      BY <1>4
    <3>2. place'[i] \in Nat
      BY <1>8, <3>1
    <3>3. i \in pivotal => place'[i] <= K
      BY <1>8
    <3> QED
      BY <1>2, <1>8, <1>12, <3>2, <3>3
  <2>2. pivotal' \subseteq Rows
    BY <1>1, <1>2, <1>7 DEF PlacesInv
  <2> QED
    BY <1>8, <1>9, <2>1, <2>2 DEF PlacesInv
<1>19. ASSUME NEW k \in 1..K PROVE ColumnInv(k)'
  <2>1. ColumnInv(k) /\ k <= K
    BY <1>1, <1>4 DEF FactorInv
  <2>2. \A j \in Range(upper[k]) : j \in 1..K
    <3> TAKE j \in Range(upper[k])
    <3>1. j < k /\ j \in 1..BlockSize
      BY <1>4, <2>1 DEF ColumnInv
    <3> QED
      BY <2>1, <3>1
  <2>3. /\ \A j \in Range(upper[k]) : prow'[j] = prow[j] /\ Range(lower'[j]) = Lows(j)
        /\ prow'[k] = prow[k] /\ Range(lower'[k]) = Lows(k) /\ upper'[k] = upper[k]
        /\ OneToOne(lower'[k]) /\ matrix' = matrix
    BY <1>3, <1>8, <1>13, <2>1, <2>2 DEF ColumnInv
  <2>4. FilledRows(k)' = FilledRows(k)
    BY <2>3 DEF FilledRows, Lows
  <2>5. \A i \in Lows(k) : place'[i] > k
    <3> TAKE i \in Lows(k)
    <3>1. i \in Rows /\ place[i] > k
      BY <1>4, <2>1 DEF ColumnInv
    <3>2. CASE i \in pivotal
      BY <1>8, <3>1, <3>2
    <3>3. CASE i \notin pivotal
      <4>1. place'[i] = c \/ place'[i] > c
        BY <1>8, <3>1, <3>3
      <4>2. place'[i] \in Nat
        BY <1>4, <1>8, <3>1
      <4> QED
        BY <2>1, <1>12, <4>1, <4>2
    <3> QED
      BY <3>2, <3>3
  <2>6. \A a \in DOMAIN upper[k] : upper[k][a] \in Range(upper[k])
    BY DEF Range
  <2> QED
    BY <2>1, <2>3, <2>4, <2>5, <2>6 DEF ColumnInv, Lows
<1>20. ColumnInv(c)'
  <2>1. OneToOne(upper'[c])
    <3> SUFFICES ASSUME NEW m \in DOMAIN eliminated, NEW n \in DOMAIN eliminated,
                        place[eliminated[m]] = place[eliminated[n]]
                 PROVE  m = n
      BY <1>15 DEF OneToOne
    <3>1. eliminated[m] = eliminated[n]
      BY <1>11, <1>15
    <3> QED
      BY <1>6, <3>1 DEF OneToOne
  <2>2. \A j \in Range(upper'[c]) : j < c
    BY <1>11, <1>12, <1>15
  <2>3. \A i \in Range(lower'[c]) : place'[i] > c
    BY <1>5, <1>6, <1>8, <1>14
  <2>4. \A j \in Range(upper'[c]) : Range(lower'[j]) \subseteq flagged
    BY <1>10, <1>15, <1>16
  <2>5. \A i \in flagged \ matrix[c] : \E j \in Range(upper'[c]) : i \in Range(lower'[j])
    <3> TAKE i \in flagged \ matrix[c]
    <3>1. PICK r \in flagged \cap pivotal : i \in Lows(place[r])
      BY <1>1, <1>4 DEF ReachInv
    <3>2. r \in Range(eliminated)
      BY <1>6
    <3> QED
      BY <1>15, <1>16, <3>1, <3>2
  <2>6. \A a, b \in DOMAIN upper'[c] : a < b => prow'[upper'[c][a]] \notin Range(lower'[upper'[c][b]])
    <3> SUFFICES ASSUME NEW a \in DOMAIN eliminated, NEW b \in DOMAIN eliminated, a < b,
                        eliminated[a] \in Lows(place[eliminated[b]])
                 PROVE  FALSE
      BY <1>15, <1>16
    <3>1. Before(eliminated, eliminated[b], eliminated[a])
      BY <1>10, <1>11, <1>15
    <3>2. PICK m, n \in DOMAIN eliminated :
            m < n /\ eliminated[m] = eliminated[b] /\ eliminated[n] = eliminated[a]
      BY <3>1 DEF Before
    <3>3. m = b /\ n = a
      BY <1>6, <3>2 DEF OneToOne
    <3>4. a \in Nat /\ b \in Nat
      BY <1>5
    <3> QED
      BY <3>2, <3>3, <3>4
  <2>7. OneToOne(lower'[c]) /\ matrix' = matrix
    BY <1>3, <1>9
  <2> QED
    BY <1>6, <1>17, <2>1, <2>2, <2>3, <2>4, <2>5, <2>6, <2>7 DEF ColumnInv, Lows
<1>21. ASSUME NEW j \in 1..K PROVE PruneInv(j)'
  <2>1. PruneInv(j) /\ ColumnInv(j)
    BY <1>1, <1>4 DEF FactorInv
  <2>2. DOMAIN lower'[j] = 1..Len(lower[j]) /\ Len(lower[j]) \in Nat
    <3> DEFINE R == Seq(Rows)
    <3>1. lower' \in Seq(R) /\ j \in 1..Len(lower')
      BY <1>9, <1>12
    <3> HIDE DEF R
    <3>2. lower'[j] \in R
      BY <3>1
    <3>3. lower'[j] \in Seq(Rows) /\ Len(lower'[j]) = Len(lower[j]) /\ Len(lower[j]) \in Nat
      BY <1>4, <1>13, <3>2 DEF R
    <3> QED
      BY <3>3
  <2>3. CASE lower'[j] = lower[j] /\ pruned'[j] = pruned[j]
    <3> SUFFICES ASSUME pruned'[j] # NotPruned PROVE PruneInv(j)'
      BY DEF PruneInv
    <3>1. pruned[j] # NotPruned
      BY <2>3
    <3>2. PICK n \in 1..pruned[j] :
            /\ lower[j][n] \in pivotal
            /\ \A m \in DOMAIN lower[j] : m > pruned[j] => lower[j][m] \in Lows(place[lower[j][n]])
      BY <2>1, <3>1 DEF PruneInv
    <3> DEFINE w == lower[j][n]
    <3>3. w \in pivotal /\ place'[w] = place[w] /\ place[w] \in 1..K
      BY <1>1, <1>4, <1>8, <3>2, SearchTypes
    <3> HIDE DEF w
    <3>4. Range(lower'[place'[w]]) = Lows(place[w])
      BY <1>13, <3>3
    <3>5. \A m \in DOMAIN lower'[j] : m > pruned'[j] => lower'[j][m] \in Range(lower'[place'[w]])
      BY <2>3, <3>2, <3>4 DEF w
    <3>6. n \in 1..pruned'[j] /\ lower'[j][n] = w /\ w \in pivotal'
      BY <1>2, <2>3, <3>3 DEF w
    <3>7. pruned'[j] <= Len(lower'[j])
      BY <2>1, <2>3, <3>1 DEF PruneInv
    <3> QED
      BY <3>5, <3>6, <3>7 DEF PruneInv, Lows
  <2>4. CASE CutsColumn(j, pivot)
    <3>1. /\ pivot \in Lows(j) /\ pruned'[j] \in 0..Len(lower[j])
          /\ \A m \in 1..Len(lower[j]) : lower'[j][m] \in pivotal' <=> m <= pruned'[j]
      BY <2>4 DEF CutsColumn
    <3>2. PICK i \in Range(eliminated) : j = place[i]
      BY <2>4 DEF CutsColumn
    <3>3. Lows(j) = {lower'[j][m] : m \in 1..Len(lower[j])}
      BY <1>13, <2>2 DEF Lows, Range
    <3>4. PICK n \in 1..Len(lower[j]) : lower'[j][n] = pivot
      BY <3>1, <3>3
    <3>5. n \in 1..pruned'[j]
      <4>1. n <= pruned'[j]
        BY <1>2, <3>1, <3>4
      <4> QED
        BY <2>2, <3>1, <4>1
    <3>6. ASSUME NEW m \in 1..Len(lower[j]), m > pruned'[j]
          PROVE  lower'[j][m] \in Range(lower'[c])
      <4>1. lower'[j][m] \notin pivotal'
        BY <2>2, <3>1, <3>6
      <4>2. lower'[j][m] \in flagged
        BY <1>10, <3>2, <3>3
      <4> QED
        BY <1>2, <1>6, <1>14, <4>1, <4>2
    <3>7. lower'[j][n] \in pivotal' /\ place'[lower'[j][n]] = c
      BY <1>2, <1>8, <3>4
    <3>8. pruned'[j] <= Len(lower'[j])
      BY <1>13, <2>2, <3>1
    <3> QED
      BY <2>2, <3>5, <3>6, <3>7, <3>8 DEF PruneInv, Lows
  <2> QED
    BY <1>2, <2>3, <2>4 DEF KeepsColumn
<1>22. PruneInv(c)'
  BY <1>9 DEF PruneInv
<1>23. FactorInv'
  <2>1. \A k \in DOMAIN lower' : ColumnInv(k)' /\ PruneInv(k)'
    BY <1>12, <1>19, <1>20, <1>21, <1>22
  <2> QED
    BY <1>18, <2>1 DEF FactorInv
<1>24. LuTypeOK'
  <2>1. c <= BlockSize
    BY <1>4
  <2>2. /\ <<>> \in Seq(Rows) /\ matrix' \in [Rows -> SUBSET Rows]
        /\ unscanned' \in [Rows -> Nat]
    BY <1>1, <1>3 DEF LuTypeOK
  <2>3. /\ outcome' = "factoring" => c < BlockSize
        /\ outcome' = "done" => c = BlockSize
        /\ todo' \subseteq Rows
    <3>1. CASE Col = BlockSize
      BY <1>1, <1>3, <1>4, <3>1
    <3>2. CASE Col # BlockSize
      <4>1. c < BlockSize /\ c + 1 \in Rows
        BY <1>4, <2>1, <3>2
      <4> QED
        BY <1>3, <1>4, <1>5, <3>2, <4>1
    <3> QED
      BY <3>1, <3>2
  <2> QED
    BY <1>3, <1>8, <1>9, <2>1, <2>2, <2>3 DEF LuTypeOK
<1>25. ASSUME outcome' = "factoring" PROVE SearchInv'
  <2>1. todo' = matrix'[Col']
    <3>1. Col' = c + 1
      BY <1>9 DEF Col
    <3> QED
      BY <1>3, <1>4, <1>25, <3>1
  <2>2. /\ Range(trail') = {} /\ Range(eliminated') = {} /\ Range(lik') = {}
        /\ OneToOne(eliminated') /\ OneToOne(lik') /\ DOMAIN trail' = {}
    BY <1>3 DEF Range, OneToOne
  <2>3. ReachInv'
    BY <1>3, <2>1 DEF ReachInv
  <2>4. StackInv'
    BY <1>3, <2>2 DEF StackInv
  <2>5. ScanInv'
    BY <2>2 DEF ScanInv
  <2> QED
    BY <2>3, <2>4, <2>5 DEF SearchInv
<1> QED
  BY <1>23, <1>24, <1>25 DEF LuInv

LEMMA LuInvNext == LuInv /\ [LuNext]_luvars => LuInv'
<1> SUFFICES ASSUME LuInv, [LuNext]_luvars PROVE LuInv'
  OBVIOUS
<1>1. CASE TakeEntry
  BY <1>1, TakeEntryKeepsInv
<1>2. CASE ScanEntry
  BY <1>2, ScanEntryKeepsInv
<1>3. CASE LeaveRow
  BY <1>3, LeaveRowKeepsInv
<1>4. CASE FactorColumn
  BY <1>4, FactorColumnKeepsInv
<1>5. CASE Singular
  BY <1>5, SingularKeepsInv
<1>6. CASE UNCHANGED luvars
  <2>1. /\ UNCHANGED factors /\ UNCHANGED <<todo, flagged, trail, unscanned, eliminated, lik>>
        /\ LuTypeOK /\ FactorInv
    BY <1>6 DEF luvars, LuInv
  <2>2. /\ Col' = Col /\ pivotal' = pivotal /\ matrix' = matrix /\ place' = place
        /\ lower' = lower /\ outcome' = outcome /\ FactorInv'
        /\ \A i : SearchLength(i)' = SearchLength(i)
        /\ \A j : Lows(j)' = Lows(j)
    BY <2>1, SameFactors
  <2>3. LuTypeOK'
    BY <2>1 DEF LuTypeOK, factors
  <2>4. SearchInv => SearchInv'
    BY <2>1, <2>2 DEF SearchInv, ReachInv, StackInv, ScanInv
  <2> QED
    BY <2>1, <2>2, <2>3, <2>4 DEF LuInv
<1> QED
  BY <1>1, <1>2, <1>3, <1>4, <1>5, <1>6 DEF LuNext

\* A finished factor, by places.
LEMMA FactorFromInv == LuInv => FactorHoldsTheReach
<1> SUFFICES ASSUME LuInv, outcome = "done" PROVE IsFactor(Finished, matrix, BlockSize)
  BY DEF FactorHoldsTheReach
<1> DEFINE f == Finished
<1>1. LuTypeOK /\ FactorInv /\ PlacesInv /\ Len(lower) = BlockSize
  BY DEF LuInv, FactorInv, LuTypeOK
<1>2. /\ BlockSize \in Nat /\ Rows = 1..BlockSize /\ DOMAIN lower = Rows
      /\ Len(upper) = BlockSize /\ upper \in Seq(Seq(Rows))
      /\ prow \in [Rows -> Rows] /\ place \in [Rows -> Rows] /\ matrix \in [Rows -> SUBSET Rows]
      /\ \A k \in Rows : /\ upper[k] \in Seq(Rows) /\ Range(upper[k]) \subseteq Rows
                         /\ Lows(k) \subseteq Rows
  BY <1>1, LuTypes DEF LuTypeOK
<1>3. /\ f.row = prow /\ f.above = upper
      /\ f.below = [k \in Rows |-> {place[i] : i \in Lows(k)}]
  BY DEF Finished, Lows
<1> HIDE DEF f
<1>4. \A k \in Rows : f.below[k] = {place[i] : i \in Lows(k)} /\ InU(f, k) = Range(upper[k])
  BY <1>3 DEF InU, Range
<1>5. /\ \A k \in Rows : place[prow[k]] = k
      /\ \A i \in Rows : prow[place[i]] = i
  BY <1>1 DEF PlacesInv
\* A place is filled when its row is.
<1>6. ASSUME NEW k \in Rows, NEW r \in Rows
      PROVE  /\ r \in f.below[k] <=> prow[r] \in Lows(k)
             /\ r \in InU(f, k) <=> \E j \in Range(upper[k]) : prow[r] = prow[j]
             /\ r \in Filled(f, k) <=> prow[r] \in FilledRows(k)
  <2>1. r \in f.below[k] <=> prow[r] \in Lows(k)
    <3>1. \A i \in Lows(k) : i \in Rows
      BY <1>2
    <3>2. r \in f.below[k] <=> \E i \in Lows(k) : r = place[i]
      BY <1>4
    <3> QED
      BY <1>5, <3>1, <3>2
  <2>2. r \in InU(f, k) <=> \E j \in Range(upper[k]) : prow[r] = prow[j]
    BY <1>2, <1>4, <1>5
  <2>3. r = k <=> prow[r] = prow[k]
    BY <1>5
  <2> QED
    BY <2>1, <2>2, <2>3 DEF Filled, FilledRows
<1>7. f.row \in [Rows -> Rows] /\ \A i, j \in Rows : f.row[i] = f.row[j] => i = j
  BY <1>2, <1>3, <1>5
<1>8. f.above \in [Rows -> Seq(Rows)] /\ f.below \in [Rows -> SUBSET Rows]
  <2>1. DOMAIN upper = Rows
    BY <1>2
  <2>2. upper = [k \in Rows |-> upper[k]]
    <3> DEFINE R == Seq(Rows)
    <3>1. upper \in Seq(R)
      BY <1>2
    <3> HIDE DEF R
    <3> QED
      BY <1>2, <2>1, <3>1
  <2>3. \A k \in Rows : f.below[k] \subseteq Rows
    BY <1>2, <1>4
  <2> QED
    BY <1>2, <1>3, <2>2, <2>3
<1>9. ASSUME NEW k \in Rows
      PROVE  /\ InU(f, k) \subseteq 1..(k - 1) /\ f.below[k] \subseteq (k + 1)..BlockSize
             /\ Entries(f, k, matrix) \subseteq Filled(f, k)
             /\ \A j \in InU(f, k) : f.below[j] \subseteq Filled(f, k)
             /\ \A r \in Filled(f, k) \ Entries(f, k, matrix) :
                  \E j \in InU(f, k) : r \in f.below[j]
             /\ \A a, b \in DOMAIN f.above[k] :
                  a < b => /\ f.above[k][a] # f.above[k][b]
                           /\ f.above[k][a] \notin f.below[f.above[k][b]]
  <2>1. ColumnInv(k)
    BY <1>1, <1>2 DEF FactorInv
  <2>2. InU(f, k) \subseteq 1..(k - 1) /\ InU(f, k) \subseteq Rows
    <3>1. InU(f, k) = Range(upper[k]) /\ Range(upper[k]) \subseteq Rows
      BY <1>2, <1>4
    <3>2. \A j \in Range(upper[k]) : j < k
      BY <2>1 DEF ColumnInv
    <3>3. \A j \in Rows : j < k => j \in 1..(k - 1)
      BY <1>2
    <3> QED
      BY <3>1, <3>2, <3>3
  <2>3. f.below[k] \subseteq (k + 1)..BlockSize
    <3> SUFFICES ASSUME NEW i \in Lows(k) PROVE place[i] \in (k + 1)..BlockSize
      BY <1>4
    <3>1. place[i] > k /\ place[i] \in 1..BlockSize /\ k \in 1..BlockSize
      BY <1>2, <2>1 DEF ColumnInv
    <3> QED
      BY <1>2, <3>1
  <2>4. Filled(f, k) \subseteq Rows /\ \A j \in Rows : f.below[j] \subseteq Rows
    <3>1. \A j \in Rows : f.below[j] \subseteq Rows
      <4> TAKE j \in Rows
      <4>1. f.below[j] = {place[i] : i \in Lows(j)} /\ Lows(j) \subseteq Rows
        BY <1>2, <1>4
      <4> QED
        BY <1>2, <4>1
    <3> QED
      BY <2>2, <3>1 DEF Filled
  <2>5. Entries(f, k, matrix) = {r \in Rows : prow[r] \in matrix[k]}
    BY <1>2, <1>3 DEF Entries
  <2>6. Entries(f, k, matrix) \subseteq Filled(f, k)
    BY <1>6, <2>1, <2>5 DEF ColumnInv
  <2>7. \A j \in InU(f, k) : f.below[j] \subseteq Filled(f, k)
    <3> TAKE j \in InU(f, k)
    <3> SUFFICES ASSUME NEW r \in f.below[j] PROVE r \in Filled(f, k)
      OBVIOUS
    <3>1. j \in Rows /\ r \in Rows
      BY <2>2, <2>4
    <3>2. prow[r] \in Lows(j)
      BY <1>6, <3>1
    <3>3. j \in Range(upper[k])
      BY <1>4
    <3> QED
      BY <1>6, <2>1, <3>1, <3>2, <3>3 DEF ColumnInv
  <2>8. ASSUME NEW r \in Filled(f, k) \ Entries(f, k, matrix)
        PROVE  \E j \in InU(f, k) : r \in f.below[j]
    <3>1. r \in Rows /\ prow[r] \in FilledRows(k) \ matrix[k]
      BY <1>6, <2>4, <2>5
    <3>2. PICK j \in Range(upper[k]) : prow[r] \in Lows(j)
      BY <2>1, <3>1 DEF ColumnInv
    <3> QED
      BY <1>4, <1>6, <2>2, <3>1, <3>2
  <2>9. ASSUME NEW a \in DOMAIN upper[k], NEW b \in DOMAIN upper[k], a < b
        PROVE  upper[k][a] # upper[k][b] /\ upper[k][a] \notin f.below[upper[k][b]]
    <3>1. upper[k][a] \in Rows /\ upper[k][b] \in Rows /\ a \in Nat /\ b \in Nat
      <4> DEFINE u == upper[k]
      <4>1. u \in Seq(Rows)
        BY <1>2
      <4> HIDE DEF u
      <4>2. ASSUME NEW m \in DOMAIN u PROVE u[m] \in Rows /\ m \in Nat
        BY <4>1
      <4> QED
        BY <4>2 DEF u
    <3>2. upper[k][a] # upper[k][b]
      BY <2>1, <2>9, <3>1 DEF ColumnInv, OneToOne
    <3>3. prow[upper[k][a]] \notin Lows(upper[k][b])
      BY <2>1, <2>9 DEF ColumnInv
    <3> QED
      BY <1>6, <3>1, <3>2, <3>3
  <2> QED
    BY <1>3, <2>2, <2>3, <2>6, <2>7, <2>8, <2>9
<1> QED
  BY <1>2, <1>7, <1>8, <1>9 DEF IsFactor, f

\* For any block, whatever order its entries are in and whichever pivots are
\* taken: pruning loses nothing that a column reaches, the pattern a finished
\* factor holds is the one elimination fills, in an order that can be followed.
THEOREM PruningLosesNothing == LuSpec => []FactorHoldsTheReach
<1>1. LuInv => FactorHoldsTheReach
  BY FactorFromInv
<1> QED
  BY <1>1, LuInvInit, LuInvNext, PTL DEF LuSpec

-----------------------------------------------------------------------------
(* The block triangular form.                                              *)

BtfTypeOK ==
  /\ sparsity \in [Places -> SUBSET Places]
  /\ column \in 1..(Dimension + 1)
  /\ match \in [Places -> 0..Dimension]
  /\ cheap \in [Places -> SUBSET Places] /\ entered \subseteq Places
  /\ pstack \in [Places -> SUBSET Places] /\ flipped \subseteq Places
  /\ istack \in Seq(Places) /\ jstack \in Seq(Places) /\ cstack \in Seq(Places)
  /\ time \in [Places -> Nat] /\ low \in [Places -> Nat] /\ flag \in [Places -> Nat]
  /\ blocks \in Nat /\ timestamp \in Nat

\* Rows and columns go in pairs, and what cheap has passed stays matched.
PairsInv ==
  /\ \A i \in Places : match[i] < column
  /\ \A i, k \in Places : match[i] = match[k] /\ match[i] # 0 => i = k
  /\ \A i \in Places : match[i] # 0 => (i \in sparsity[match[i]] <=> i \notin flipped)
  /\ \A i \in flipped : match[i] # 0
  /\ column <= Dimension => flipped = {}
  /\ \A j \in Places : \A i \in cheap[j] : match[i] # 0

\* The columns given a row with an entry.
Paired == {match[i] : i \in Places \ flipped}

\* Columns whose rows are all given to columns among them.
Cramped(D) ==
  \A j \in D : \A i \in sparsity[j] : match[i] \in D /\ i \notin flipped
HallInv ==
  \E D \in SUBSET Places :
    Cramped(D) /\ \A j \in Places : j < column /\ j \notin Paired => j \in D

\* The path of augment, and what it has left behind.
PathInv ==
  column <= Dimension =>
    /\ jstack = <<>> => istack = <<>> /\ entered = {}
    /\ jstack # <<>> => Len(jstack) = Len(istack) + 1 /\ jstack[1] = column
    /\ \A n \in DOMAIN istack : istack[n] \in sparsity[jstack[n]] /\ match[istack[n]] = jstack[n + 1]
    /\ \A n \in DOMAIN jstack : n < Len(jstack) => jstack[n] \in entered
    /\ \A m, n \in DOMAIN jstack : jstack[m] = jstack[n] => m = n
    /\ \A j \in entered : \A i \in sparsity[j] :
         /\ match[i] # 0
         /\ i \in pstack[j] \/ match[i] \in entered \cup Range(jstack)
    /\ \A j \in entered : pstack[j] \subseteq sparsity[j] /\ (j \in Range(jstack) \/ pstack[j] = {})

MatchingDone == column > Dimension /\ Unmatched = {}
QuietInv ==
  /\ ~MatchingDone =>
       /\ \A i \in Places : time[i] = 0 /\ flag[i] = 0
       /\ cstack = <<>> /\ blocks = 0 /\ timestamp = 0 /\ order = Unordered
  /\ ~MatchingDone /\ column > Dimension => jstack = <<>>

\* The nodes in no block yet, and the graph.
Pool == {i \in Places : Unassigned(i)}
Edges == [i \in Places |-> Targets(i)]

TimesInv ==
  /\ \A i \in Places : time[i] <= timestamp /\ flag[i] <= blocks
  /\ \A i, k \in Places : time[i] = time[k] /\ time[i] # 0 => i = k
  /\ \A i \in Places : time[i] = 0 => flag[i] = 0
  /\ \A i \in Pool : low[i] <= time[i]

\* The nodes entered and not left follow an edge each, after the first.
CallsInv ==
  /\ Range(cstack) = Pool
  /\ \A m, n \in DOMAIN cstack : m < n => time[cstack[m]] < time[cstack[n]]
  /\ \A n \in DOMAIN jstack : jstack[n] \in Pool
  /\ \A m, n \in DOMAIN jstack : m < n => time[jstack[m]] < time[jstack[n]]
  /\ \A n \in DOMAIN jstack : n > 1 => jstack[n] \in Edges[jstack[n - 1]]
  /\ \A i \in Pool : jstack # <<>> /\ time[jstack[1]] <= time[i]

\* An edge that was looked at leads to a node entered, and low knows of it.
EdgesInv ==
  \A i \in Places : time[i] # 0 =>
    /\ pstack[i] \subseteq Edges[i]
    /\ i \in Range(jstack) \/ pstack[i] = {}
    /\ \A k \in Edges[i] \ pstack[i] :
         time[k] # 0 /\ (i \in Pool /\ k \in Pool => low[i] <= time[k])

ClosedInv ==
  \A i \in Places : flag[i] # 0 => \A k \in Edges[i] : flag[k] # 0 /\ flag[k] <= flag[i]

\* Nodes in no block that edges leave for blocks only.
Open(T) == T \subseteq Pool /\ \A i \in T : Edges[i] \cap Pool \subseteq T

\* Between two nodes of the stack, or after its top.
Beneath(n, i) ==
  /\ time[jstack[n]] < time[i]
  /\ n < Len(jstack) => time[i] < time[jstack[n + 1]]

\* low is the time of a node that cannot be kept apart, and is handed down.
LowInv ==
  /\ \A i \in Pool : i \in Range(jstack) \/ low[i] < time[i]
  /\ \A n \in DOMAIN jstack : \A i \in Pool : Beneath(n, i) => low[jstack[n]] <= low[i]
  /\ \A T \in SUBSET Places : Open(T) => \A i \in T : \E w \in T : time[w] = low[i]

\* What was entered after a node of the stack was entered from it or from what was.
ParentInv ==
  \A n \in DOMAIN jstack : \A i \in Pool : time[jstack[n]] < time[i] =>
    \E k \in Pool : i \in Edges[k] /\ time[jstack[n]] <= time[k] /\ time[k] < time[i]

BlocksInv ==
  \A b \in 1..blocks : \A T \in SUBSET Places :
    /\ T # {} /\ \A i \in T : flag[i] = b
    /\ \A i \in T : \A k \in Edges[i] : flag[k] = b => k \in T
    => \A i \in Places : flag[i] = b => i \in T

ComponentsInv ==
  MatchingDone =>
    TimesInv /\ CallsInv /\ EdgesInv /\ ClosedInv /\ LowInv /\ ParentInv /\ BlocksInv

OrderInv ==
  order # Unordered =>
    /\ MatchingDone /\ jstack = <<>> /\ Unreached = {}
    /\ order.p = [k \in Places |-> CHOOSE j \in Places : Place(j) = k]
    /\ order.q = [k \in Places |-> match[order.p[k]]]
    /\ order.block = [k \in Places |-> flag[order.p[k]]]

BtfInv ==
  /\ BtfTypeOK /\ PairsInv /\ HallInv /\ PathInv
  /\ QuietInv /\ ComponentsInv /\ OrderInv

\* A set of numbers that is not empty has a least one.
LEMMA LowestIs ==
  ASSUME NEW S \in SUBSET Nat, S # {}
  PROVE  Lowest(S) \in S /\ \A k \in S : Lowest(S) <= k
<1>1. PICK m \in S : \A k \in S : <<k, m>> \notin OpToRel(<, Nat)
  BY NatLessThanWellFounded, WFMin
<1>2. \A k \in S : m <= k
  <2> SUFFICES ASSUME NEW k \in S, ~(m <= k) PROVE FALSE
    OBVIOUS
  <2>1. k \in Nat /\ m \in Nat /\ k < m
    OBVIOUS
  <2>2. <<k, m>> \in OpToRel(<, Nat)
    BY <2>1 DEF OpToRel
  <2> QED
    BY <1>1, <2>2
<1> QED
  BY <1>2 DEF Lowest

\* What the types say of the parts.
LEMMA BtfTypes ==
  ASSUME BtfTypeOK
  PROVE  /\ Dimension \in Nat /\ Places = 1..Dimension /\ Places \subseteq Nat
         /\ column \in Nat \ {0} /\ (column <= Dimension => column \in Places)
         /\ Len(jstack) \in Nat /\ DOMAIN jstack = 1..Len(jstack)
         /\ Len(istack) \in Nat /\ DOMAIN istack = 1..Len(istack)
         /\ Len(cstack) \in Nat /\ DOMAIN cstack = 1..Len(cstack)
         /\ Range(jstack) \subseteq Places
         /\ \A n \in DOMAIN jstack : jstack[n] \in Places
         /\ \A n \in DOMAIN istack : istack[n] \in Places
         /\ \A n \in DOMAIN cstack : cstack[n] \in Places
         /\ \A i \in Places : /\ match[i] \in Nat /\ match[i] <= Dimension
                              /\ match[i] # 0 => match[i] \in Places
         /\ \A j \in Places : sparsity[j] \subseteq Places /\ pstack[j] \subseteq Places
         /\ \A j \in Places : time[j] \in Nat /\ low[j] \in Nat /\ flag[j] \in Nat
<1>1. Dimension \in Nat /\ Places = 1..Dimension /\ Places \subseteq Nat
  BY SparsityAssumption DEF Places
<1>2. column \in 1..(Dimension + 1) /\ match \in [Places -> 0..Dimension]
  BY DEF BtfTypeOK
<1>3. column \in Nat \ {0} /\ (column <= Dimension => column \in Places)
  BY <1>1, <1>2
<1>4. \A i \in Places : match[i] \in 0..Dimension
  BY <1>2
<1>5. \A i \in Places : /\ match[i] \in Nat /\ match[i] <= Dimension
                        /\ match[i] # 0 => match[i] \in Places
  BY <1>1, <1>4
<1>6. istack \in Seq(Places) /\ jstack \in Seq(Places) /\ cstack \in Seq(Places)
  BY DEF BtfTypeOK
<1>7. \A s \in Seq(Places) : /\ Len(s) \in Nat /\ DOMAIN s = 1..Len(s)
                             /\ \A n \in DOMAIN s : s[n] \in Places
  OBVIOUS
<1>8. Range(jstack) \subseteq Places
  BY <1>6, <1>7 DEF Range
<1>9. \A j \in Places : sparsity[j] \subseteq Places /\ pstack[j] \subseteq Places
  BY DEF BtfTypeOK
<1>10. \A j \in Places : time[j] \in Nat /\ low[j] \in Nat /\ flag[j] \in Nat
  BY DEF BtfTypeOK
<1> QED
  BY <1>1, <1>3, <1>5, <1>6, <1>7, <1>8, <1>9, <1>10

\* The top of the stack.
LEMMA TopIs ==
  ASSUME BtfTypeOK, jstack # <<>>
  PROVE  /\ Top \in Places /\ Top = jstack[Len(jstack)] /\ Top \in Range(jstack)
         /\ Len(jstack) \in Nat \ {0} /\ Len(jstack) \in DOMAIN jstack /\ 1 \in DOMAIN jstack
         /\ Front(jstack) \in Seq(Places) /\ Len(Front(jstack)) = Len(jstack) - 1
         /\ DOMAIN Front(jstack) = 1..(Len(jstack) - 1)
         /\ \A n \in 1..(Len(jstack) - 1) : Front(jstack)[n] = jstack[n]
         /\ Range(jstack) = Range(Front(jstack)) \cup {Top}
         /\ (Len(jstack) = 1 => Front(jstack) = <<>>) /\ (Len(jstack) # 1 => Front(jstack) # <<>>)
<1>1. jstack \in Seq(Places)
  BY DEF BtfTypeOK
<1>2. /\ Front(jstack) \in Seq(Places) /\ Len(jstack) \in Nat \ {0} /\ Len(Front(jstack)) = Len(jstack) - 1
      /\ \A n \in 1..(Len(jstack) - 1) : Front(jstack)[n] = jstack[n]
      /\ Last(jstack) = jstack[Len(jstack)] /\ Last(jstack) \in Places
      /\ Range(jstack) = Range(Front(jstack)) \cup {Last(jstack)}
  BY <1>1, FrontIs
<1>3. DOMAIN jstack = 1..Len(jstack) /\ DOMAIN Front(jstack) = 1..Len(Front(jstack))
  BY <1>1, <1>2
<1>4. \A s \in Seq(Places) : (Len(s) = 0 => s = <<>>) /\ (Len(s) # 0 => s # <<>>)
  OBVIOUS
<1> QED
  BY <1>2, <1>3, <1>4 DEF Top

\* Before the search for the blocks.
NoBlocksYet ==
  /\ \A i \in Places : time[i] = 0 /\ flag[i] = 0
  /\ cstack = <<>> /\ blocks = 0 /\ timestamp = 0 /\ order = Unordered
  /\ column > Dimension => jstack = <<>>

LEMMA FreshIsQuiet == BtfTypeOK /\ NoBlocksYet => QuietInv /\ ComponentsInv /\ OrderInv
<1> SUFFICES ASSUME BtfTypeOK, NoBlocksYet PROVE QuietInv /\ ComponentsInv /\ OrderInv
  OBVIOUS
<1>1. QuietInv /\ OrderInv
  BY DEF NoBlocksYet, QuietInv, OrderInv
<1>2. ASSUME MatchingDone
      PROVE  /\ TimesInv /\ CallsInv /\ EdgesInv /\ ClosedInv
             /\ LowInv /\ ParentInv /\ BlocksInv
  <2>1. /\ jstack = <<>> /\ cstack = <<>> /\ DOMAIN jstack = {} /\ DOMAIN cstack = {}
        /\ \A i \in Places : time[i] = 0 /\ flag[i] = 0
        /\ blocks = 0 /\ timestamp = 0
    BY <1>2 DEF NoBlocksYet, MatchingDone
  <2>2. Range(cstack) = {} /\ Pool = {}
    BY <2>1 DEF Range, Pool, Unassigned
  <2>3. TimesInv
    BY <2>1, <2>2 DEF TimesInv
  <2>4. CallsInv
    BY <2>1, <2>2 DEF CallsInv
  <2>5. EdgesInv /\ ClosedInv
    BY <2>1 DEF EdgesInv, ClosedInv
  <2>6. LowInv
    BY <2>1, <2>2 DEF LowInv, Open
  <2>7. ParentInv
    BY <2>1 DEF ParentInv
  <2>8. BlocksInv
    <3>1. 1..blocks = {}
      BY <2>1
    <3> QED
      BY <3>1 DEF BlocksInv
  <2> QED
    BY <2>3, <2>4, <2>5, <2>6, <2>7, <2>8
<1> QED
  BY <1>1, <1>2 DEF ComponentsInv

\* Nothing is matched yet.
LEMMA BtfInvInit == BtfInit => BtfInv
<1> SUFFICES ASSUME BtfInit PROVE BtfInv
  OBVIOUS
<1>1. Dimension \in Nat /\ Places = 1..Dimension
  BY SparsityAssumption DEF Places
<1>2. /\ column = 1 /\ match = [i \in Places |-> 0] /\ cheap = [j \in Places |-> {}]
      /\ entered = {} /\ istack = <<>> /\ flipped = {} /\ jstack = <<>>
      /\ pstack = [j \in Places |-> {}] /\ cstack = <<>> /\ blocks = 0 /\ timestamp = 0
      /\ time = [j \in Places |-> 0] /\ low = [j \in Places |-> 0] /\ flag = [j \in Places |-> 0]
      /\ order = Unordered
  BY DEF BtfInit, NoRows
<1>3. BtfTypeOK
  <2>1. sparsity \in [Places -> SUBSET Places]
    BY SparsityAssumption DEF BtfInit
  <2>2. column \in 1..(Dimension + 1) /\ match \in [Places -> 0..Dimension]
    BY <1>1, <1>2
  <2>3. <<>> \in Seq(Places)
    OBVIOUS
  <2> QED
    BY <1>2, <2>1, <2>2, <2>3 DEF BtfTypeOK
<1>4. PairsInv
  BY <1>1, <1>2 DEF PairsInv
<1>5. HallInv
  <2>1. \A j \in Places : ~(j < column)
    BY <1>1, <1>2
  <2>2. Cramped({}) /\ {} \in SUBSET Places
    BY DEF Cramped
  <2> QED
    BY <2>1, <2>2 DEF HallInv
<1>6. PathInv
  BY <1>2 DEF PathInv
<1>7. NoBlocksYet
  BY <1>2 DEF NoBlocksYet
<1> QED
  BY <1>3, <1>4, <1>5, <1>6, <1>7, FreshIsQuiet DEF BtfInv

\* As long as columns are matched nothing has been searched for blocks.
LEMMA NotYetSearched ==
  ASSUME BtfInv, ~MatchingDone
  PROVE  /\ \A i \in Places : time[i] = 0 /\ flag[i] = 0
         /\ cstack = <<>> /\ blocks = 0 /\ timestamp = 0 /\ order = Unordered
         /\ column > Dimension => jstack = <<>>
  BY DEF BtfInv, QuietInv

\* A step of the matching that keeps its own invariants keeps all.
LEMMA MatchingStep ==
  ASSUME BtfInv, ~MatchingDone, UNCHANGED <<components, order>>,
         (column > Dimension => jstack = <<>>)',
         BtfTypeOK', PairsInv', HallInv', PathInv'
  PROVE  BtfInv'
<1>1. NoBlocksYet'
  BY NotYetSearched DEF NoBlocksYet, components
<1>2. (BtfTypeOK /\ NoBlocksYet => QuietInv /\ ComponentsInv /\ OrderInv)'
  BY FreshIsQuiet, PTL
<1> QED
  BY <1>1, <1>2 DEF BtfInv

\* The path of an augment starts with the column to match.
LEMMA BeginColumnKeepsInv == ASSUME BtfInv, BeginColumn PROVE BtfInv'
<1>1. BtfTypeOK /\ PairsInv /\ HallInv /\ PathInv
  BY DEF BtfInv
<1>2. /\ column <= Dimension /\ jstack = <<>> /\ jstack' = <<column>>
      /\ UNCHANGED <<sparsity, match, cheap, entered, istack, column, flipped, pstack>>
      /\ UNCHANGED <<components, order>>
  BY DEF BeginColumn, matching
<1>3. Dimension \in Nat /\ column \in Nat /\ column \in Places
  BY <1>1, <1>2, BtfTypes
<1>4. ~MatchingDone /\ (column > Dimension => jstack = <<>>)'
  BY <1>2, <1>3 DEF MatchingDone
<1>5. BtfTypeOK'
  <2>1. <<column>> \in Seq(Places)
    BY <1>3
  <2> QED
    BY <1>1, <1>2, <2>1 DEF BtfTypeOK, components
<1>6. PairsInv'
  BY <1>1, <1>2 DEF PairsInv
<1>7. HallInv'
  BY <1>1, <1>2 DEF HallInv, Cramped, Paired
<1>8. PathInv'
  <2>1. istack = <<>> /\ entered = {}
    BY <1>1, <1>2 DEF PathInv
  <2>2. /\ Len(jstack') = 1 /\ jstack'[1] = column /\ DOMAIN jstack' = {1}
        /\ jstack' # <<>> /\ Len(istack') = 0 /\ DOMAIN istack' = {}
    BY <1>2, <2>1
  <2> QED
    BY <1>2, <2>1, <2>2 DEF PathInv
<1> QED
  BY <1>4, <1>5, <1>6, <1>7, <1>8, <1>2, MatchingStep

\* What holds while a path is followed.
LEMMA OnThePath ==
  ASSUME BtfInv, column <= Dimension, jstack # <<>>
  PROVE  /\ ~MatchingDone /\ flipped = {}
         /\ Len(istack) \in Nat /\ Len(jstack) = Len(istack) + 1 /\ jstack[1] = column
         /\ DOMAIN istack = 1..Len(istack) /\ DOMAIN jstack = 1..(Len(istack) + 1)
         /\ \A n \in 1..Len(istack) :
              istack[n] \in sparsity[jstack[n]] /\ match[istack[n]] = jstack[n + 1]
         /\ \A n \in 1..Len(istack) : jstack[n] \in entered
         /\ \A m, n \in 1..(Len(istack) + 1) : jstack[m] = jstack[n] => m = n
         /\ Top = jstack[Len(istack) + 1]
         /\ \A n \in 1..(Len(istack) + 1) : jstack[n] \in Places
<1>1. BtfTypeOK /\ PairsInv /\ PathInv
  BY DEF BtfInv
<1>2. /\ Len(istack) \in Nat /\ DOMAIN istack = 1..Len(istack) /\ DOMAIN jstack = 1..Len(jstack)
      /\ column \in Nat /\ Dimension \in Nat /\ \A n \in DOMAIN jstack : jstack[n] \in Places
  BY <1>1, BtfTypes
<1>3. /\ Len(jstack) = Len(istack) + 1 /\ jstack[1] = column
      /\ \A n \in DOMAIN istack : istack[n] \in sparsity[jstack[n]] /\ match[istack[n]] = jstack[n + 1]
      /\ \A n \in DOMAIN jstack : n < Len(jstack) => jstack[n] \in entered
      /\ \A m, n \in DOMAIN jstack : jstack[m] = jstack[n] => m = n
  BY <1>1 DEF PathInv
<1>4. Top = jstack[Len(jstack)]
  BY <1>1, TopIs
<1>5. \A n \in 1..Len(istack) : n \in DOMAIN jstack /\ n < Len(jstack)
  BY <1>2, <1>3
<1>6. ~MatchingDone /\ flipped = {}
  BY <1>1, <1>2 DEF MatchingDone, PairsInv
<1> QED
  BY <1>2, <1>3, <1>4, <1>5, <1>6

\* A column without a row that nobody has.
LEMMA EnterColumnKeepsInv == ASSUME BtfInv, EnterColumn PROVE BtfInv'
<1>1. BtfTypeOK /\ PairsInv /\ HallInv /\ PathInv
  BY DEF BtfInv
<1>2. /\ column <= Dimension /\ jstack # <<>> /\ Top \notin entered /\ FreeRows(Top) = {}
      /\ entered' = entered \cup {Top}
      /\ cheap' = [cheap EXCEPT ![Top] = sparsity[Top]]
      /\ pstack' = [pstack EXCEPT ![Top] = sparsity[Top]]
      /\ UNCHANGED <<sparsity, column, match, istack, flipped, jstack>>
      /\ UNCHANGED <<components, order>>
  BY DEF EnterColumn, Entering
<1>3. /\ Top \in Places /\ Top \in Range(jstack)
      /\ cheap \in [Places -> SUBSET Places] /\ pstack \in [Places -> SUBSET Places]
      /\ sparsity \in [Places -> SUBSET Places] /\ entered \subseteq Places
  BY <1>1, <1>2, TopIs DEF BtfTypeOK
<1>4. /\ cheap'[Top] = sparsity[Top] /\ \A j \in Places : j # Top => cheap'[j] = cheap[j]
      /\ pstack'[Top] = sparsity[Top] /\ \A j \in Places : j # Top => pstack'[j] = pstack[j]
      /\ cheap' \in [Places -> SUBSET Places] /\ pstack' \in [Places -> SUBSET Places]
  BY <1>2, <1>3
<1>5. \A i \in sparsity[Top] : match[i] # 0
  BY <1>1, <1>2, <1>3 DEF FreeRows, PairsInv
<1>6. ~MatchingDone /\ (column > Dimension => jstack = <<>>)'
  <2>1. ~(column > Dimension)
    BY <1>1, <1>2, BtfTypes
  <2> QED
    BY <1>2, <2>1 DEF MatchingDone
<1>7. BtfTypeOK'
  BY <1>1, <1>2, <1>3, <1>4 DEF BtfTypeOK, components
<1>8. PairsInv'
  <2>1. \A j \in Places : \A i \in cheap'[j] : match[i] # 0
    BY <1>1, <1>4, <1>5 DEF PairsInv
  <2> QED
    BY <1>1, <1>2, <2>1 DEF PairsInv
<1>9. HallInv'
  BY <1>1, <1>2 DEF HallInv, Cramped, Paired
<1>10. PathInv'
  <2>1. \A j \in entered' : \A i \in sparsity[j] :
          /\ match[i] # 0
          /\ i \in pstack'[j] \/ match[i] \in entered' \cup Range(jstack)
    BY <1>1, <1>2, <1>3, <1>4, <1>5 DEF PathInv
  <2>2. \A j \in entered' : /\ pstack'[j] \subseteq sparsity[j]
                            /\ j \in Range(jstack) \/ pstack'[j] = {}
    BY <1>1, <1>2, <1>3, <1>4 DEF PathInv
  <2> QED
    BY <1>1, <1>2, <2>1, <2>2 DEF PathInv
<1> QED
  BY <1>2, <1>6, <1>7, <1>8, <1>9, <1>10, MatchingStep

\* On to the column that has the row, unless it was entered before.
LEMMA FollowRowKeepsInv == ASSUME BtfInv, FollowRow PROVE BtfInv'
<1>1. BtfTypeOK /\ PairsInv /\ HallInv /\ PathInv
  BY DEF BtfInv
<1>2. /\ column <= Dimension /\ jstack # <<>> /\ Top \in entered
      /\ UNCHANGED <<sparsity, column, match, cheap, entered, flipped>>
      /\ UNCHANGED <<components, order>>
  BY DEF FollowRow, Looking
<1>3. PICK i \in pstack[Top] :
        /\ pstack' = [pstack EXCEPT ![Top] = @ \ {i}]
        /\ IF match[i] \in entered THEN UNCHANGED <<istack, jstack>>
           ELSE istack' = Append(istack, i) /\ jstack' = Append(jstack, match[i])
  BY DEF FollowRow
<1>4. /\ Top \in Places /\ Top \in Range(jstack) /\ pstack \in [Places -> SUBSET Places]
      /\ sparsity \in [Places -> SUBSET Places] /\ match \in [Places -> 0..Dimension]
      /\ istack \in Seq(Places) /\ jstack \in Seq(Places)
  BY <1>1, <1>2, TopIs DEF BtfTypeOK
<1>5. /\ pstack'[Top] = pstack[Top] \ {i} /\ \A j \in Places : j # Top => pstack'[j] = pstack[j]
      /\ pstack' \in [Places -> SUBSET Places]
  BY <1>3, <1>4
<1>6. i \in Places /\ i \in sparsity[Top] /\ match[i] # 0 /\ match[i] \in Places
  <2>1. i \in Places
    BY <1>4
  <2>2. i \in sparsity[Top] /\ match[i] # 0
    BY <1>1, <1>2, <1>3 DEF PathInv
  <2> QED
    BY <1>1, <2>1, <2>2, BtfTypes
<1> DEFINE L == Len(istack)
<1>7. /\ ~MatchingDone /\ L \in Nat /\ Len(jstack) = L + 1 /\ jstack[1] = column
      /\ DOMAIN istack = 1..L /\ DOMAIN jstack = 1..(L + 1)
      /\ \A n \in 1..L : istack[n] \in sparsity[jstack[n]] /\ match[istack[n]] = jstack[n + 1]
      /\ \A n \in 1..L : jstack[n] \in entered
      /\ \A m, n \in 1..(L + 1) : jstack[m] = jstack[n] => m = n
      /\ Top = jstack[L + 1]
  BY <1>2, OnThePath
<1> HIDE DEF L
<1>8. (column > Dimension => jstack = <<>>)'
  BY <1>1, <1>2, BtfTypes
<1>9. PairsInv' /\ HallInv'
  <2>1. PairsInv'
    BY <1>1, <1>2 DEF PairsInv
  <2>2. HallInv'
    BY <1>1, <1>2 DEF HallInv, Cramped, Paired
  <2> QED
    BY <2>1, <2>2
<1>10. CASE match[i] \in entered
  <2>1. UNCHANGED <<istack, jstack>>
    BY <1>3, <1>10
  <2>2. BtfTypeOK'
    BY <1>1, <1>2, <1>5, <2>1 DEF BtfTypeOK, components
  <2>3. PathInv'
    <3>1. \A j \in entered : \A r \in sparsity[j] :
            /\ match[r] # 0
            /\ r \in pstack'[j] \/ match[r] \in entered \cup Range(jstack)
      BY <1>1, <1>2, <1>4, <1>5, <1>10 DEF PathInv, BtfTypeOK
    <3>2. \A j \in entered : /\ pstack'[j] \subseteq sparsity[j]
                             /\ j \in Range(jstack) \/ pstack'[j] = {}
      BY <1>1, <1>2, <1>4, <1>5 DEF PathInv, BtfTypeOK
    <3> QED
      BY <1>1, <1>2, <2>1, <3>1, <3>2 DEF PathInv
  <2> QED
    BY <1>2, <1>7, <1>8, <1>9, <2>2, <2>3, MatchingStep
<1>11. CASE match[i] \notin entered
  <2>1. istack' = Append(istack, i) /\ jstack' = Append(jstack, match[i])
    BY <1>3, <1>11
  <2>2. /\ istack' \in Seq(Places) /\ Len(istack') = L + 1
        /\ \A n \in 1..L : istack'[n] = istack[n]
        /\ istack'[L + 1] = i
    BY <1>4, <1>6, <2>1, AppendIs DEF L
  <2>3. /\ jstack' \in Seq(Places) /\ Len(jstack') = (L + 1) + 1
        /\ \A n \in 1..(L + 1) : jstack'[n] = jstack[n]
        /\ jstack'[(L + 1) + 1] = match[i] /\ Range(jstack') = Range(jstack) \cup {match[i]}
    BY <1>4, <1>6, <1>7, <2>1, AppendIs
  <2>4. DOMAIN istack' = 1..(L + 1) /\ DOMAIN jstack' = 1..(L + 2) /\ jstack' # <<>>
        /\ Len(jstack') = Len(istack') + 1
    BY <1>7, <2>2, <2>3
  <2>5. BtfTypeOK'
    BY <1>1, <1>2, <1>5, <2>2, <2>3 DEF BtfTypeOK, components
  <2>6. \A n \in 1..(L + 1) : jstack[n] \in entered
    BY <1>2, <1>7
  <2>7. PathInv'
    <3>1. jstack'[1] = column
      BY <1>7, <2>3
    <3>2. ASSUME NEW n \in 1..(L + 1)
          PROVE  istack'[n] \in sparsity[jstack'[n]] /\ match[istack'[n]] = jstack'[n + 1]
      <4>1. CASE n \in 1..L
        <5>1. n + 1 \in 1..(L + 1) /\ n \in 1..(L + 1)
          BY <1>7, <4>1
        <5> QED
          BY <1>7, <2>2, <2>3, <4>1, <5>1
      <4>2. CASE n = L + 1
        BY <1>6, <1>7, <2>2, <2>3, <4>2
      <4> QED
        BY <1>7, <4>1, <4>2
    <3>3. \A n \in 1..(L + 2) : n < Len(jstack') => jstack'[n] \in entered
      BY <1>7, <2>3, <2>6
    <3>4. \A m, n \in 1..(L + 2) : jstack'[m] = jstack'[n] => m = n
      <4> SUFFICES ASSUME NEW m \in 1..(L + 2), NEW n \in 1..(L + 2), jstack'[m] = jstack'[n], m # n
                   PROVE  FALSE
        OBVIOUS
      <4>1. (m \in 1..(L + 1) \/ m = L + 2) /\ (n \in 1..(L + 1) \/ n = L + 2)
        BY <1>7
      <4>2. jstack'[L + 2] = match[i] /\ \A l \in 1..(L + 1) : jstack'[l] \in entered
        BY <1>7, <2>3, <2>6
      <4> QED
        BY <1>7, <1>11, <2>3, <4>1, <4>2
    <3>5. \A j \in entered : \A r \in sparsity[j] :
            /\ match[r] # 0
            /\ r \in pstack'[j] \/ match[r] \in entered \cup Range(jstack')
      BY <1>1, <1>2, <1>4, <1>5, <2>3 DEF PathInv, BtfTypeOK
    <3>6. \A j \in entered : /\ pstack'[j] \subseteq sparsity[j]
                             /\ j \in Range(jstack') \/ pstack'[j] = {}
      BY <1>1, <1>2, <1>4, <1>5, <2>3 DEF PathInv, BtfTypeOK
    <3> QED
      BY <1>2, <2>4, <3>1, <3>2, <3>3, <3>4, <3>5, <3>6 DEF PathInv
  <2> QED
    BY <1>2, <1>7, <1>8, <1>9, <2>5, <2>7, MatchingStep
<1> QED
  BY <1>10, <1>11

\* A search that finds nothing: the columns it entered have their rows to
\* themselves.
LEMMA FailedSearch ==
  ASSUME BtfInv, LeaveColumn, Len(jstack) = 1
  PROVE  HallInv'
<1>1. BtfTypeOK /\ PairsInv /\ HallInv /\ PathInv
  BY DEF BtfInv
<1>2. /\ column <= Dimension /\ jstack # <<>> /\ Top \in entered /\ pstack[Top] = {}
      /\ column' = column + 1 /\ UNCHANGED <<sparsity, match, flipped>>
  BY DEF LeaveColumn, Looking
<1>3. /\ Top \in Places /\ Range(jstack) = {Top} /\ jstack[1] = Top
  <2>1. Range(Front(jstack)) = {}
    BY <1>1, <1>2, TopIs DEF Range
  <2> QED
    BY <1>1, <1>2, <2>1, TopIs
<1>4. column = Top /\ flipped = {} /\ column \in Nat /\ entered \subseteq Places
  BY <1>1, <1>2, <1>3, OnThePath, BtfTypes DEF BtfTypeOK
<1>5. PICK D \in SUBSET Places : Cramped(D) /\ \A j \in Places : j < column /\ j \notin Paired => j \in D
  BY <1>1 DEF HallInv
<1>6. \A j \in entered : pstack[j] = {}
  BY <1>1, <1>2, <1>3 DEF PathInv
<1>7. Cramped(entered)
  <2>1. \A j \in entered : \A i \in sparsity[j] : match[i] \in entered
    BY <1>1, <1>2, <1>3, <1>6 DEF PathInv
  <2> QED
    BY <1>4, <2>1 DEF Cramped
<1>8. Cramped(D \cup entered)
  BY <1>5, <1>7 DEF Cramped
<1>9. \A j \in Places : j < column + 1 /\ j \notin Paired => j \in D \cup entered
  <2> SUFFICES ASSUME NEW j \in Places, j < column + 1, j \notin Paired PROVE j \in D \cup entered
    OBVIOUS
  <2>1. j < column \/ j = column
    BY <1>1, <1>4, BtfTypes
  <2> QED
    BY <1>2, <1>4, <1>5, <2>1
<1>10. Paired' = Paired
  BY <1>2 DEF Paired
<1>11. (D \cup entered) \in SUBSET Places
  BY <1>4, <1>5
<1>12. PICK F \in SUBSET Places : F = D \cup entered
  BY <1>11
<1>13. (\A j \in F : \A i \in sparsity'[j] : match'[i] \in F /\ i \notin flipped')
  BY <1>2, <1>8, <1>12 DEF Cramped
<1>14. \A j \in Places : j < column' /\ j \notin Paired' => j \in F
  BY <1>2, <1>9, <1>10, <1>12
<1> QED
  BY <1>13, <1>14 DEF HallInv, Cramped

LEMMA LeaveColumnKeepsInv == ASSUME BtfInv, LeaveColumn PROVE BtfInv'
<1>1. BtfTypeOK /\ PairsInv /\ HallInv /\ PathInv
  BY DEF BtfInv
<1>2. /\ column <= Dimension /\ jstack # <<>> /\ Top \in entered /\ pstack[Top] = {}
      /\ jstack' = Front(jstack)
      /\ UNCHANGED <<sparsity, match, cheap, flipped, pstack>>
      /\ UNCHANGED <<components, order>>
  BY DEF LeaveColumn, Looking
<1> DEFINE L == Len(istack)
<1>3. /\ ~MatchingDone /\ L \in Nat /\ Len(jstack) = L + 1 /\ jstack[1] = column
      /\ DOMAIN istack = 1..L /\ DOMAIN jstack = 1..(L + 1)
      /\ \A n \in 1..L : istack[n] \in sparsity[jstack[n]] /\ match[istack[n]] = jstack[n + 1]
      /\ \A n \in 1..L : jstack[n] \in entered
      /\ \A m, n \in 1..(L + 1) : jstack[m] = jstack[n] => m = n
      /\ flipped = {}
  BY <1>2, OnThePath
<1> HIDE DEF L
<1>4. /\ Front(jstack) \in Seq(Places) /\ Len(jstack') = L /\ DOMAIN jstack' = 1..L
      /\ \A n \in 1..L : jstack'[n] = jstack[n]
      /\ Range(jstack) = Range(jstack') \cup {Top}
      /\ (L = 0 => jstack' = <<>>) /\ (L # 0 => jstack' # <<>>)
  BY <1>1, <1>2, <1>3, TopIs
<1>5. column \in Nat /\ Dimension \in Nat /\ column \in 1..Dimension
  BY <1>1, <1>2, BtfTypes
<1>6. CASE L = 0
  <2>1. /\ Len(jstack) = 1 /\ column' = column + 1 /\ entered' = {} /\ istack' = istack
        /\ istack = <<>> /\ jstack' = <<>>
    <3>1. Len(jstack) = 1
      BY <1>3, <1>6
    <3>2. istack \in Seq(Places) /\ Len(istack) = 0
      BY <1>1, <1>6 DEF BtfTypeOK, L
    <3>3. istack = <<>>
      BY <3>2
    <3> QED
      BY <1>4, <1>6, <3>1, <3>3 DEF LeaveColumn
  <2>2. BtfTypeOK'
    <3>1. column + 1 \in 1..(Dimension + 1)
      BY <1>5
    <3> QED
      BY <1>1, <1>2, <1>4, <2>1, <3>1 DEF BtfTypeOK, components
  <2>3. PairsInv'
    <3>1. \A i \in Places : match[i] < column + 1
      BY <1>1, <1>5, BtfTypes DEF PairsInv
    <3> QED
      BY <1>1, <1>2, <1>3, <2>1, <3>1 DEF PairsInv
  <2>4. HallInv'
    BY <2>1, FailedSearch
  <2>5. PathInv'
    <3>1. DOMAIN istack' = {} /\ DOMAIN jstack' = {}
      BY <2>1
    <3> QED
      BY <2>1, <3>1 DEF PathInv
  <2> QED
    BY <1>2, <1>3, <2>1, <2>2, <2>3, <2>4, <2>5, MatchingStep
<1>7. CASE L # 0
  <2>1. /\ Len(jstack) # 1 /\ istack' = Front(istack) /\ UNCHANGED <<column, entered>>
    <3>1. Len(jstack) # 1
      BY <1>3, <1>7
    <3> QED
      BY <3>1 DEF LeaveColumn
  <2>2. /\ istack' \in Seq(Places) /\ Len(istack') = L - 1
        /\ \A n \in 1..(L - 1) : istack'[n] = istack[n]
    <3>1. istack \in Seq(Places) /\ istack # <<>>
      BY <1>1, <1>3, <1>7 DEF BtfTypeOK, L
    <3> QED
      BY <2>1, <3>1, FrontIs DEF L
  <2>3. DOMAIN istack' = 1..(L - 1)
    BY <2>2
  <2>4. BtfTypeOK'
    BY <1>1, <1>2, <1>4, <2>1, <2>2 DEF BtfTypeOK, components
  <2>5. PairsInv'
    BY <1>1, <1>2, <2>1 DEF PairsInv
  <2>6. HallInv'
    BY <1>1, <1>2, <2>1 DEF HallInv, Cramped, Paired
  <2>7. PathInv'
    <3>1. jstack' # <<>> /\ Len(jstack') = Len(istack') + 1 /\ jstack'[1] = column
      BY <1>3, <1>4, <1>7, <2>2
    <3>2. \A n \in 1..(L - 1) : istack'[n] \in sparsity[jstack'[n]] /\ match[istack'[n]] = jstack'[n + 1]
      <4> TAKE n \in 1..(L - 1)
      <4>1. n \in 1..L /\ n + 1 \in 1..L
        BY <1>3, <1>7
      <4> QED
        BY <1>3, <1>4, <2>2, <4>1
    <3>3. \A n \in 1..L : jstack'[n] \in entered
      BY <1>3, <1>4
    <3>4. \A m, n \in 1..L : jstack'[m] = jstack'[n] => m = n
      <4> TAKE m, n \in 1..L
      <4>1. m \in 1..(L + 1) /\ n \in 1..(L + 1)
        BY <1>3
      <4> QED
        BY <1>3, <1>4, <4>1
    <3>5. \A j \in entered : \A i \in sparsity[j] :
            /\ match[i] # 0
            /\ i \in pstack[j] \/ match[i] \in entered \cup Range(jstack')
      BY <1>1, <1>2, <1>4 DEF PathInv
    <3>6. \A j \in entered : /\ pstack[j] \subseteq sparsity[j]
                             /\ j \in Range(jstack') \/ pstack[j] = {}
      BY <1>1, <1>2, <1>4 DEF PathInv
    <3> QED
      BY <1>2, <1>4, <2>1, <2>3, <3>1, <3>2, <3>3, <3>4, <3>5, <3>6 DEF PathInv
  <2>8. (column > Dimension => jstack = <<>>)'
    BY <1>2, <1>5, <2>1
  <2> QED
    BY <1>2, <1>3, <2>4, <2>5, <2>6, <2>7, <2>8, MatchingStep
<1> QED
  BY <1>6, <1>7

\* The rows left over the columns left over: they have no entry there, since
\* every row of such a column is another's.
LEMMA CompleteMatchingKeepsInv == ASSUME BtfInv, CompleteMatching PROVE BtfInv'
<1>1. BtfTypeOK /\ PairsInv /\ HallInv /\ PathInv /\ QuietInv
  BY DEF BtfInv
<1> DEFINE i == Lowest(Unmatched)
           j == Lowest(LeftOver)
<1>2. /\ column > Dimension /\ Unmatched # {} /\ LeftOver # {}
      /\ match' = [match EXCEPT ![i] = j] /\ flipped' = flipped \cup {i}
      /\ UNCHANGED <<sparsity, column, cheap, entered, istack, jstack, pstack>>
      /\ UNCHANGED <<components, order>>
  BY DEF CompleteMatching
<1>3. i \in Places /\ match[i] = 0 /\ j \in Places /\ j \notin Range(match)
  <2>1. Unmatched \in SUBSET Nat /\ LeftOver \in SUBSET Nat
    BY <1>1, BtfTypes DEF Unmatched, LeftOver
  <2>2. i \in Unmatched /\ j \in LeftOver
    BY <1>2, <2>1, LowestIs
  <2> QED
    BY <2>2 DEF Unmatched, LeftOver
<1> HIDE DEF i, j
<1>4. /\ ~MatchingDone /\ jstack = <<>> /\ Places = 1..Dimension /\ Dimension \in Nat /\ column \in Nat
      /\ match \in [Places -> 0..Dimension]
  <2>1. ~MatchingDone
    BY <1>2 DEF MatchingDone
  <2> QED
    BY <1>1, <1>2, <2>1, BtfTypes DEF QuietInv, BtfTypeOK
<1>5. /\ match'[i] = j /\ \A r \in Places : r # i => match'[r] = match[r]
      /\ match' \in [Places -> 0..Dimension] /\ j # 0
  <2>1. j \in 0..Dimension
    BY <1>3, <1>4
  <2> QED
    BY <1>2, <1>3, <1>4, <2>1
<1>6. \A r \in Places : match[r] # j
  BY <1>3, <1>4 DEF Range
<1>7. PICK D \in SUBSET Places : Cramped(D) /\ \A c \in Places : c < column /\ c \notin Paired => c \in D
  BY <1>1 DEF HallInv
<1>8. i \notin sparsity[j]
  <2>1. j \notin Paired /\ j < column
    <3>1. flipped \subseteq Places
      BY <1>1 DEF BtfTypeOK
    <3> QED
      BY <1>2, <1>3, <1>4, <1>6 DEF Paired
  <2>2. j \in D
    BY <1>3, <1>7, <2>1
  <2>3. 0 \notin Places
    BY <1>4
  <2> QED
    BY <1>3, <1>7, <2>2, <2>3 DEF Cramped
<1>9. BtfTypeOK'
  BY <1>1, <1>2, <1>3, <1>5 DEF BtfTypeOK, components
<1>10. PairsInv'
  <2>1. \A r \in Places : match'[r] < column
    BY <1>1, <1>2, <1>3, <1>4, <1>5 DEF PairsInv
  <2>2. \A r, k \in Places : match'[r] = match'[k] /\ match'[r] # 0 => r = k
    BY <1>1, <1>5, <1>6 DEF PairsInv
  <2>3. \A r \in Places : match'[r] # 0 => (r \in sparsity[match'[r]] <=> r \notin flipped')
    BY <1>1, <1>2, <1>5, <1>8 DEF PairsInv
  <2>4. \A r \in flipped' : match'[r] # 0
    BY <1>1, <1>2, <1>5 DEF PairsInv, BtfTypeOK
  <2>5. \A c \in Places : \A r \in cheap[c] : match'[r] # 0
    BY <1>1, <1>5 DEF PairsInv, BtfTypeOK
  <2>6. ~(column <= Dimension)
    BY <1>2, <1>4
  <2> QED
    BY <1>2, <2>1, <2>2, <2>3, <2>4, <2>5, <2>6 DEF PairsInv
<1>11. HallInv'
  <2>1. \A c \in D : \A r \in sparsity[c] : match'[r] \in D /\ r \notin flipped'
    <3> SUFFICES ASSUME NEW c \in D, NEW r \in sparsity[c] PROVE match'[r] \in D /\ r \notin flipped'
      OBVIOUS
    <3>1. r \in Places /\ match[r] \in D /\ r \notin flipped
      BY <1>1, <1>7 DEF Cramped, BtfTypeOK
    <3>2. r # i
      BY <1>3, <1>4, <3>1
    <3> QED
      BY <1>2, <1>5, <3>1, <3>2
  <2>2. \A c \in Places : c \in Paired => c \in Paired'
    <3> SUFFICES ASSUME NEW r \in Places \ flipped, match[r] \in Places PROVE match[r] \in Paired'
      BY DEF Paired
    <3>1. r # i
      BY <1>3, <1>4
    <3>2. match'[r] = match[r] /\ r \in Places \ flipped'
      BY <1>2, <1>5, <3>1
    <3> QED
      BY <3>2 DEF Paired
  <2>3. \A c \in Places : c < column' /\ c \notin Paired' => c \in D
    BY <1>2, <1>7, <2>2
  <2> QED
    BY <1>2, <2>1, <2>3 DEF HallInv, Cramped
<1>12. PathInv'
  BY <1>2, <1>4 DEF PathInv
<1>13. (column > Dimension => jstack = <<>>)'
  BY <1>2, <1>4
<1> QED
  BY <1>2, <1>4, <1>9, <1>10, <1>11, <1>12, <1>13, MatchingStep

\* The rows along an augmenting path, one for each of its columns.
LEMMA PathIs ==
  ASSUME BtfInv, column <= Dimension, jstack # <<>>, NEW i \in FreeRows(Top)
  PROVE  LET path == Append(istack, i)
             L == Len(istack) + 1
         IN  /\ L \in Nat \ {0} /\ DOMAIN path = 1..L /\ DOMAIN jstack = 1..L /\ i \in Places
             /\ \A n \in 1..L : path[n] \in Places /\ path[n] \in sparsity[jstack[n]]
             /\ \A n \in 1..L : match[path[n]] = IF n = L THEN 0 ELSE jstack[n + 1]
             /\ \A m, n \in 1..L : path[m] = path[n] => m = n
<1> DEFINE path == Append(istack, i)
           L == Len(istack) + 1
<1>1. BtfTypeOK /\ istack \in Seq(Places)
  BY DEF BtfInv, BtfTypeOK
<1>2. /\ Len(istack) \in Nat /\ L \in Nat \ {0} /\ DOMAIN istack = 1..Len(istack) /\ DOMAIN jstack = 1..L
      /\ \A n \in 1..Len(istack) :
           istack[n] \in sparsity[jstack[n]] /\ match[istack[n]] = jstack[n + 1]
      /\ \A m, n \in 1..L : jstack[m] = jstack[n] => m = n
      /\ Top = jstack[L] /\ \A n \in 1..L : jstack[n] \in Places
  BY OnThePath
<1>3. i \in Places /\ i \in sparsity[Top] /\ match[i] = 0
  BY <1>1, <1>2, BtfTypes DEF FreeRows
<1>4. /\ path \in Seq(Places) /\ Len(path) = L
      /\ \A n \in 1..Len(istack) : path[n] = istack[n]
      /\ path[L] = i
  BY <1>1, <1>3, AppendIs
<1>5. DOMAIN path = 1..L
  BY <1>4
<1> HIDE DEF path
<1>6. \A n \in 1..L : n \in 1..Len(istack) \/ n = L
  BY <1>2
<1>7. L \notin 1..Len(istack) /\ \A n \in 1..Len(istack) : n # L /\ n + 1 \in 1..L
  BY <1>2
<1> HIDE DEF L
<1>8. \A n \in 1..L : path[n] \in Places /\ path[n] \in sparsity[jstack[n]]
  BY <1>1, <1>2, <1>3, <1>4, <1>6, BtfTypes
<1>9. \A n \in 1..L : match[path[n]] = IF n = L THEN 0 ELSE jstack[n + 1]
  BY <1>2, <1>3, <1>4, <1>6
<1>10. \A m, n \in 1..L : path[m] = path[n] => m = n
  <2> SUFFICES ASSUME NEW m \in 1..L, NEW n \in 1..L, path[m] = path[n] PROVE m = n
    OBVIOUS
  <2>1. \A k \in Places : k # 0
    BY <1>1, BtfTypes
  <2>2. CASE m = L \/ n = L
    BY <1>2, <1>6, <1>7, <1>9, <2>1, <2>2
  <2>3. CASE m # L /\ n # L
    <3>0. match[path[m]] = jstack[m + 1] /\ match[path[n]] = jstack[n + 1]
      BY <1>9, <2>3
    <3>1. jstack[m + 1] = jstack[n + 1] /\ m + 1 \in 1..L /\ n + 1 \in 1..L
      BY <1>6, <1>7, <2>3, <3>0
    <3>2. m + 1 = n + 1
      BY <1>2, <3>1
    <3> QED
      BY <3>2
  <2> QED
    BY <2>2, <2>3
<1> QED
  BY <1>2, <1>3, <1>5, <1>8, <1>9, <1>10 DEF path, L

\* What the path's columns and rows have after it, and what the others keep.
LEMMA UnwoundIs ==
  ASSUME BtfInv, column <= Dimension, jstack # <<>>, NEW i \in FreeRows(Top),
         match' = LET path == Append(istack, i) IN
                  [r \in Places |->
                     IF r \in Range(path) THEN jstack[CHOOSE n \in DOMAIN path : path[n] = r]
                     ELSE match[r]]
  PROVE  LET path == Append(istack, i)
             L == Len(istack) + 1
         IN  /\ \A n \in 1..L : match'[path[n]] = jstack[n]
             /\ \A r \in Places : (\E n \in 1..L : r = path[n]) \/ match'[r] = match[r]
             /\ match' \in [Places -> 0..Dimension]
<1> DEFINE path == Append(istack, i)
           L == Len(istack) + 1
<1>1. /\ L \in Nat \ {0} /\ DOMAIN path = 1..L /\ DOMAIN jstack = 1..L
      /\ \A n \in 1..L : path[n] \in Places
      /\ \A m, n \in 1..L : path[m] = path[n] => m = n
  BY PathIs
<1>2. \A n \in 1..L : jstack[n] \in Places
  BY <1>1, BtfTypes DEF BtfInv
<1>3. match \in [Places -> 0..Dimension] /\ Places \subseteq 0..Dimension
  <2>1. BtfTypeOK
    BY DEF BtfInv
  <2>2. Places = 1..Dimension /\ Dimension \in Nat
    BY <2>1, BtfTypes
  <2> QED
    BY <2>1, <2>2 DEF BtfTypeOK
<1>4. match' = [r \in Places |->
                  IF r \in Range(path) THEN jstack[CHOOSE n \in DOMAIN path : path[n] = r]
                  ELSE match[r]]
  OBVIOUS
<1> HIDE DEF path, L
<1>5. Range(path) = {path[n] : n \in 1..L}
  BY <1>1 DEF Range
<1>6. ASSUME NEW n \in 1..L PROVE match'[path[n]] = jstack[n]
  <2>1. (CHOOSE m \in DOMAIN path : path[m] = path[n]) = n
    BY <1>1
  <2>2. path[n] \in Range(path) /\ path[n] \in Places
    BY <1>1, <1>5
  <2> QED
    BY <1>4, <2>1, <2>2
<1>7. ASSUME NEW r \in Places PROVE (\E n \in 1..L : r = path[n]) \/ match'[r] = match[r]
  BY <1>4, <1>5
<1>8. ASSUME NEW r \in Places PROVE match'[r] \in 0..Dimension
  <2>1. CASE match'[r] = match[r]
    BY <1>3, <2>1
  <2>2. CASE \E n \in 1..L : r = path[n]
    <3>1. PICK n \in 1..L : r = path[n]
      BY <2>2
    <3>2. match'[r] = jstack[n] /\ jstack[n] \in Places
      BY <1>2, <1>6, <3>1
    <3> QED
      BY <1>3, <3>2
  <2> QED
    BY <1>7, <2>1, <2>2
<1>9. match' \in [Places -> 0..Dimension]
  BY <1>4, <1>8
<1> QED
  BY <1>6, <1>7, <1>9 DEF path, L

\* No column of an augmenting path is among columns that have all their rows to
\* themselves: the search would not leave them, and there is no free row.
LEMMA PathAvoids ==
  ASSUME BtfInv, column <= Dimension, jstack # <<>>, NEW i \in FreeRows(Top),
         NEW D \in SUBSET Places, Cramped(D)
  PROVE  \A n \in DOMAIN jstack : jstack[n] \notin D
<1> DEFINE path == Append(istack, i)
           L == Len(istack) + 1
           T == {d \in Nat : d < L => jstack[L - d] \notin D}
<1>1. /\ L \in Nat \ {0} /\ DOMAIN jstack = 1..L
      /\ \A n \in 1..L : path[n] \in Places /\ path[n] \in sparsity[jstack[n]]
      /\ \A n \in 1..L : match[path[n]] = IF n = L THEN 0 ELSE jstack[n + 1]
  BY PathIs
<1>2. 0 \notin D
  BY BtfTypes DEF BtfInv
<1> HIDE DEF path, L
<1>3. 0 \in T
  <2>1. L \in 1..L /\ L - 0 = L
    BY <1>1
  <2>2. jstack[L] \notin D
    BY <1>1, <1>2, <2>1 DEF Cramped
  <2> QED
    BY <2>1, <2>2
<1>4. ASSUME NEW d \in T PROVE d + 1 \in T
  <2> SUFFICES ASSUME d + 1 < L PROVE jstack[L - (d + 1)] \notin D
    OBVIOUS
  <2> DEFINE n == L - (d + 1)
  <2>1. n \in 1..L /\ n # L /\ n + 1 = L - d /\ d < L
    BY <1>1
  <2>2. jstack[n + 1] \notin D
    BY <2>1
  <2> HIDE DEF n
  <2>3. jstack[n] \notin D
    BY <1>1, <2>1, <2>2 DEF Cramped
  <2> QED
    BY <2>3 DEF n
<1>5. T = Nat
  <2>1. T \in SUBSET Nat
    OBVIOUS
  <2> HIDE DEF T
  <2> QED
    BY <1>3, <1>4, <2>1, Induct
<1> SUFFICES ASSUME NEW n \in 1..L PROVE jstack[n] \notin D
  BY <1>1
<1>6. (L - n) \in Nat /\ L - n < L /\ L - (L - n) = n
  BY <1>1
<1>7. (L - n) \in T
  BY <1>5, <1>6
<1> QED
  BY <1>6, <1>7

\* An augmenting path gives its columns other rows and the new one a row, and
\* takes none from columns that had all of theirs to themselves.
LEMMA TakeFreeRowKeepsInv == ASSUME BtfInv, TakeFreeRow PROVE BtfInv'
<1>1. BtfTypeOK /\ PairsInv /\ HallInv /\ PathInv
  BY DEF BtfInv
<1>2. /\ column <= Dimension /\ jstack # <<>> /\ column' = column + 1 /\ entered' = {}
      /\ jstack' = <<>> /\ istack' = <<>> /\ pstack' = NoRows
      /\ UNCHANGED <<sparsity, flipped>> /\ UNCHANGED <<components, order>>
  BY DEF TakeFreeRow, Entering
<1>3. PICK i \in FreeRows(Top) :
        /\ LET path == Append(istack, i) IN
             match' = [r \in Places |->
                         IF r \in Range(path) THEN jstack[CHOOSE n \in DOMAIN path : path[n] = r]
                         ELSE match[r]]
        /\ \E passed \in SUBSET {r \in sparsity[Top] : match[r] # 0} :
             cheap' = [cheap EXCEPT ![Top] = @ \cup passed \cup {i}]
  BY DEF TakeFreeRow
<1>4. PICK passed \in SUBSET {r \in sparsity[Top] : match[r] # 0} :
        cheap' = [cheap EXCEPT ![Top] = @ \cup passed \cup {i}]
  BY <1>3
<1> DEFINE path == Append(istack, i)
           L == Len(istack) + 1
<1>5. /\ L \in Nat \ {0} /\ DOMAIN jstack = 1..L /\ i \in Places
      /\ \A n \in 1..L : path[n] \in Places /\ path[n] \in sparsity[jstack[n]]
      /\ \A n \in 1..L : match[path[n]] = IF n = L THEN 0 ELSE jstack[n + 1]
      /\ \A m, n \in 1..L : path[m] = path[n] => m = n
  BY <1>2, PathIs
<1>6. /\ \A n \in 1..L : match'[path[n]] = jstack[n]
      /\ \A r \in Places : (\E n \in 1..L : r = path[n]) \/ match'[r] = match[r]
      /\ match' \in [Places -> 0..Dimension]
  BY <1>2, <1>3, UnwoundIs
<1>7. /\ ~MatchingDone /\ flipped = {} /\ jstack[1] = column
      /\ \A m, n \in 1..L : jstack[m] = jstack[n] => m = n
      /\ \A n \in 1..L : jstack[n] \in Places
      /\ Top = jstack[L]
  BY <1>2, OnThePath
<1> HIDE DEF path, L
<1>8. column \in 1..Dimension /\ Dimension \in Nat /\ Places = 1..Dimension /\ 0 \notin Places
  BY <1>1, <1>2, BtfTypes
<1>9. \A r \in Places : match[r] < column /\ match[r] \in Nat
  BY <1>1, BtfTypes DEF PairsInv
<1>10. \A n \in 1..L : jstack[n] < column + 1 /\ (n # 1 => \E m \in 1..L : match[path[m]] = jstack[n])
  <2> TAKE n \in 1..L
  <2>1. CASE n = 1
    BY <1>7, <1>8, <2>1
  <2>2. CASE n # 1
    <3>1. n - 1 \in 1..L /\ n - 1 # L /\ (n - 1) + 1 = n
      BY <1>5, <2>2
    <3>2. match[path[n - 1]] = jstack[n]
      BY <1>5, <3>1
    <3>3. jstack[n] < column + 1
      BY <1>5, <1>8, <1>9, <3>1, <3>2
    <3> QED
      BY <3>1, <3>2, <3>3
  <2> QED
    BY <2>1, <2>2
<1>11. BtfTypeOK'
  <2>1. column' \in 1..(Dimension + 1)
    BY <1>2, <1>8
  <2>2. cheap' \in [Places -> SUBSET Places]
    <3>1. passed \subseteq Places
      BY <1>1, <1>2, TopIs, BtfTypes
    <3>2. cheap \in [Places -> SUBSET Places] /\ Top \in Places
      BY <1>1, <1>2, TopIs DEF BtfTypeOK
    <3>3. (cheap[Top] \cup passed \cup {i}) \in SUBSET Places
      BY <1>5, <3>1, <3>2
    <3> QED
      BY <1>4, <3>2, <3>3
  <2>3. pstack' \in [Places -> SUBSET Places] /\ <<>> \in Seq(Places)
    BY <1>2 DEF NoRows
  <2> QED
    BY <1>1, <1>2, <1>6, <2>1, <2>2, <2>3 DEF BtfTypeOK, components
<1>12. PairsInv'
  <2>1. \A r \in Places : match'[r] < column'
    <3> TAKE r \in Places
    <3>1. CASE match'[r] = match[r]
      BY <1>2, <1>8, <1>9, <3>1
    <3>2. CASE \E n \in 1..L : r = path[n]
      BY <1>2, <1>6, <1>10, <3>2
    <3> QED
      BY <1>6, <3>1, <3>2
  <2>2. ASSUME NEW r \in Places, NEW k \in Places, match'[r] = match'[k], match'[r] # 0
        PROVE  r = k
    <3>1. ASSUME NEW a \in Places, NEW n \in 1..L, match[a] = jstack[n], match'[a] = match[a]
          PROVE  \E m \in 1..L : a = path[m]
      <4>1. n # 1
        BY <1>7, <1>8, <1>9, <3>1
      <4>2. PICK m \in 1..L : match[path[m]] = jstack[n]
        BY <1>10, <4>1
      <4>3. match[a] # 0
        BY <1>7, <1>8, <3>1
      <4>4. a = path[m]
        BY <1>1, <1>5, <3>1, <4>2, <4>3 DEF PairsInv
      <4> QED
        BY <4>4
    <3>2. CASE (\E n \in 1..L : r = path[n]) /\ (\E n \in 1..L : k = path[n])
      BY <1>6, <1>7, <2>2, <3>2
    <3>3. CASE ~(\E n \in 1..L : r = path[n]) /\ ~(\E n \in 1..L : k = path[n])
      BY <1>1, <1>6, <2>2, <3>3 DEF PairsInv
    <3>4. CASE (\E n \in 1..L : r = path[n]) /\ ~(\E n \in 1..L : k = path[n])
      <4>1. PICK n \in 1..L : r = path[n]
        BY <3>4
      <4>2. match'[k] = match[k] /\ match[k] = jstack[n]
        BY <1>6, <2>2, <3>4, <4>1
      <4> QED
        BY <3>1, <3>4, <4>2
    <3>5. CASE ~(\E n \in 1..L : r = path[n]) /\ (\E n \in 1..L : k = path[n])
      <4>1. PICK n \in 1..L : k = path[n]
        BY <3>5
      <4>2. match'[r] = match[r] /\ match[r] = jstack[n]
        BY <1>6, <2>2, <3>5, <4>1
      <4> QED
        BY <3>1, <3>5, <4>2
    <3> QED
      BY <3>2, <3>3, <3>4, <3>5
  <2>3. \A r \in Places : match'[r] # 0 => r \in sparsity[match'[r]]
    <3> TAKE r \in Places
    <3>1. CASE match'[r] = match[r]
      BY <1>1, <1>7, <3>1 DEF PairsInv
    <3>2. CASE \E n \in 1..L : r = path[n]
      BY <1>5, <1>6, <3>2
    <3> QED
      BY <1>6, <3>1, <3>2
  <2>4. \A r \in Places : match[r] # 0 \/ r = i => match'[r] # 0
    <3> TAKE r \in Places
    <3>1. CASE \E n \in 1..L : r = path[n]
      BY <1>6, <1>7, <1>8, <3>1
    <3>2. CASE ~\E n \in 1..L : r = path[n]
      <4>1. L \in 1..L /\ path[L] = i
        <5>1. istack \in Seq(Places)
          BY <1>1 DEF BtfTypeOK
        <5> QED
          BY <1>5, <5>1, AppendIs DEF path, L
      <4> QED
        BY <1>6, <3>2, <4>1
    <3> QED
      BY <3>1, <3>2
  <2>5. \A j \in Places : \A r \in cheap'[j] : match'[r] # 0
    <3> SUFFICES ASSUME NEW j \in Places, NEW r \in cheap'[j] PROVE match'[r] # 0
      OBVIOUS
    <3>1. cheap \in [Places -> SUBSET Places] /\ Top \in Places /\ sparsity[Top] \subseteq Places
      BY <1>1, <1>2, TopIs, BtfTypes DEF BtfTypeOK
    <3>2. r \in cheap[j] \/ r \in passed \/ r = i
      BY <1>4, <3>1
    <3>3. r \in Places /\ (match[r] # 0 \/ r = i)
      BY <1>1, <1>5, <3>1, <3>2 DEF PairsInv
    <3> QED
      BY <2>4, <3>3
  <2> QED
    BY <1>2, <1>7, <2>1, <2>2, <2>3, <2>5 DEF PairsInv
<1>13. HallInv'
  <2>1. PICK D \in SUBSET Places : Cramped(D) /\ \A j \in Places : j < column /\ j \notin Paired => j \in D
    BY <1>1 DEF HallInv
  <2>2. \A n \in 1..L : jstack[n] \notin D
    BY <1>2, <1>5, <2>1, PathAvoids
  <2>3. \A j \in D : \A r \in sparsity[j] : match'[r] \in D
    <3> SUFFICES ASSUME NEW j \in D, NEW r \in sparsity[j] PROVE match'[r] \in D
      OBVIOUS
    <3>1. r \in Places /\ match[r] \in D
      BY <1>1, <2>1, BtfTypes DEF Cramped
    <3>2. \A n \in 1..L : r # path[n]
      <4> SUFFICES ASSUME NEW n \in 1..L, r = path[n] PROVE FALSE
        OBVIOUS
      <4>1. CASE n = L
        BY <1>5, <1>8, <3>1, <4>1
      <4>2. CASE n # L
        <5>1. n + 1 \in 1..L /\ match[r] = jstack[n + 1]
          BY <1>5, <4>2
        <5> QED
          BY <2>2, <3>1, <5>1
      <4> QED
        BY <4>1, <4>2
    <3> QED
      BY <1>6, <3>1, <3>2
  <2>4. \A j \in Places : j < column' /\ j \notin Paired' => j \in D
    <3> SUFFICES ASSUME NEW j \in Places, j < column', j \notin D PROVE j \in Paired'
      OBVIOUS
    <3>1. \A r \in Places : match'[r] \in Paired'
      BY <1>2, <1>7 DEF Paired
    <3>2. \A n \in 1..L : jstack[n] \in Paired'
      BY <1>5, <1>6, <3>1
    <3>3. CASE j = column
      <4>1. 1 \in 1..L
        BY <1>5
      <4> QED
        BY <1>7, <3>2, <3>3, <4>1
    <3>4. CASE j < column
      <4>1. PICK r \in Places : j = match[r]
        BY <2>1, <3>4 DEF Paired
      <4>2. CASE match'[r] = match[r]
        BY <3>1, <4>1, <4>2
      <4>3. CASE \E n \in 1..L : r = path[n]
        <5>1. PICK n \in 1..L : r = path[n]
          BY <4>3
        <5>2. n # L /\ n + 1 \in 1..L
          BY <1>5, <1>8, <4>1, <5>1
        <5>3. j = jstack[n + 1]
          BY <1>5, <4>1, <5>1, <5>2
        <5> QED
          BY <3>2, <5>2, <5>3
      <4> QED
        BY <1>6, <4>2, <4>3
    <3> QED
      BY <1>2, <1>8, <3>3, <3>4
  <2> QED
    BY <1>2, <1>7, <2>1, <2>3, <2>4 DEF HallInv, Cramped
<1>14. PathInv'
  <2>1. DOMAIN istack' = {} /\ DOMAIN jstack' = {}
    BY <1>2
  <2> QED
    BY <1>2, <2>1 DEF PathInv
<1> QED
  BY <1>2, <1>7, <1>11, <1>12, <1>13, <1>14, MatchingStep

\* What holds while blocks are searched for.
LEMMA InTheSearch ==
  ASSUME BtfInv, Searching
  PROVE  /\ BtfTypeOK /\ TimesInv /\ CallsInv /\ EdgesInv /\ ClosedInv
         /\ LowInv /\ ParentInv /\ BlocksInv
         /\ MatchingDone /\ column > Dimension /\ order = Unordered
         /\ \A j \in Places : Edges[j] = Targets(j) /\ Edges[j] \subseteq Places
         /\ Pool \subseteq Places /\ \A i \in Places : i \in Pool <=> time[i] # 0 /\ flag[i] = 0
<1>1. BtfTypeOK /\ MatchingDone /\ ComponentsInv
  BY DEF BtfInv, Searching, MatchingDone
<1>2. \A j \in Places : match[j] \in Places /\ Targets(j) \subseteq Places
  <2>1. \A j \in Places : match[j] # 0
    BY <1>1 DEF MatchingDone, Unmatched
  <2> QED
    BY <1>1, <2>1, BtfTypes DEF Targets
<1>3. \A j \in Places : Edges[j] = Targets(j) /\ Edges[j] \subseteq Places
  BY <1>2 DEF Edges
<1>4. Pool \subseteq Places /\ \A i \in Places : i \in Pool <=> time[i] # 0 /\ flag[i] = 0
  BY DEF Pool, Unassigned
<1> QED
  BY <1>1, <1>3, <1>4 DEF ComponentsInv, Searching

\* The graph stays.
LEMMA SameEdges ==
  ASSUME UNCHANGED <<sparsity, matching>> PROVE Edges' = Edges
<1>1. sparsity' = sparsity /\ match' = match
  BY DEF matching
<1> QED
  BY <1>1 DEF Edges, Targets

\* A step of the search that keeps its own invariants keeps all.
LEMMA SearchStep ==
  ASSUME BtfInv, Searching, UNCHANGED <<sparsity, matching>>, BtfTypeOK', OrderInv',
         TimesInv', CallsInv', EdgesInv', ClosedInv', LowInv', ParentInv', BlocksInv'
  PROVE  BtfInv'
<1>1. MatchingDone /\ column > Dimension /\ Dimension \in Nat /\ column \in Nat
  BY InTheSearch, BtfTypes
<1>2. /\ sparsity' = sparsity /\ match' = match /\ cheap' = cheap /\ entered' = entered
      /\ istack' = istack /\ column' = column /\ flipped' = flipped
  BY DEF matching
<1>3. MatchingDone'
  BY <1>1, <1>2 DEF MatchingDone, Unmatched
<1>4. PairsInv'
  BY <1>2 DEF BtfInv, PairsInv
<1>5. HallInv'
  BY <1>2 DEF BtfInv, HallInv, Cramped, Paired
<1>6. PathInv'
  <2>1. ~(column' <= Dimension)
    BY <1>1, <1>2
  <2> QED
    BY <2>1 DEF PathInv
<1>7. QuietInv' /\ ComponentsInv'
  BY <1>3 DEF QuietInv, ComponentsInv
<1> QED
  BY <1>4, <1>5, <1>6, <1>7 DEF BtfInv

\* A node is entered after all others, and reached from the last of them.
LEMMA EnterNodeKeepsInv ==
  ASSUME BtfInv, Searching, UNCHANGED <<sparsity, matching, flag, blocks, order>>,
         NEW j \in Places, time[j] = 0, NEW remaining \in [Places -> SUBSET Places],
         EnterNode(j, remaining), jstack # <<>> => j \in Targets(Top),
         \A i \in Places : time[i] # 0 =>
           remaining[i] \subseteq pstack[i] /\ \A k \in pstack[i] \ remaining[i] : k = j
  PROVE  BtfInv'
<1>1. /\ BtfTypeOK /\ TimesInv /\ CallsInv /\ EdgesInv /\ ClosedInv
      /\ LowInv /\ ParentInv /\ BlocksInv /\ order = Unordered
  BY InTheSearch
<1>2. /\ jstack' = Append(jstack, j) /\ cstack' = Append(cstack, j) /\ timestamp' = timestamp + 1
      /\ time' = [time EXCEPT ![j] = timestamp + 1] /\ low' = [low EXCEPT ![j] = timestamp + 1]
      /\ pstack' = [remaining EXCEPT ![j] = Targets(j)]
  BY DEF EnterNode
<1>3. flag' = flag /\ blocks' = blocks /\ order' = order /\ sparsity' = sparsity /\ Edges' = Edges
  BY SameEdges
<1>4. /\ Pool \subseteq Places /\ \A i \in Places : i \in Pool <=> time[i] # 0 /\ flag[i] = 0
      /\ \A i \in Places : Edges[i] = Targets(i) /\ Edges[i] \subseteq Places
  BY InTheSearch
<1>5. /\ timestamp \in Nat /\ time \in [Places -> Nat] /\ low \in [Places -> Nat]
      /\ jstack \in Seq(Places) /\ cstack \in Seq(Places)
  BY <1>1 DEF BtfTypeOK
<1>6. \A i \in Places : time[i] \in Nat /\ low[i] \in Nat /\ time[i] <= timestamp
  BY <1>1, <1>5 DEF TimesInv
<1>7. /\ time'[j] = timestamp + 1 /\ \A i \in Places : i # j => time'[i] = time[i]
      /\ time' \in [Places -> Nat]
  <2>1. timestamp + 1 \in Nat
    BY <1>5
  <2> QED
    BY <1>2, <1>5, <2>1
<1>8. /\ low'[j] = timestamp + 1 /\ \A i \in Places : i # j => low'[i] = low[i]
      /\ low' \in [Places -> Nat]
  <2>1. timestamp + 1 \in Nat
    BY <1>5
  <2> QED
    BY <1>2, <1>5, <2>1
<1>9. /\ pstack'[j] = Edges[j] /\ \A i \in Places : i # j => pstack'[i] = remaining[i]
      /\ pstack' \in [Places -> SUBSET Places]
  BY <1>2, <1>4
<1>10. j \notin Pool /\ Pool' = Pool \cup {j}
  <2>1. flag[j] = 0 /\ j \notin Pool
    BY <1>1, <1>4 DEF TimesInv
  <2>2. \A i \in Places : i \in Pool' <=> time'[i] # 0 /\ flag[i] = 0
    BY <1>3 DEF Pool, Unassigned
  <2>3. \A i \in Places : i \in Pool' <=> i \in Pool \/ i = j
    BY <1>4, <1>5, <1>7, <2>1, <2>2
  <2>4. Pool' \subseteq Places
    BY DEF Pool
  <2> QED
    BY <1>4, <2>1, <2>3, <2>4
<1>11. \A i \in Pool : /\ i \in Places /\ i # j /\ time'[i] = time[i] /\ low'[i] = low[i]
                        /\ time[i] \in Nat /\ time[i] < time'[j]
  BY <1>4, <1>5, <1>6, <1>7, <1>8, <1>10
<1> DEFINE L == Len(jstack)
           C == Len(cstack)
<1>12. /\ L \in Nat /\ DOMAIN jstack = 1..L /\ jstack' \in Seq(Places) /\ DOMAIN jstack' = 1..(L + 1)
       /\ \A n \in 1..L : jstack'[n] = jstack[n]
       /\ jstack'[L + 1] = j /\ Range(jstack') = Range(jstack) \cup {j}
       /\ jstack' # <<>> /\ Len(jstack') = L + 1
  <2>1. /\ jstack' \in Seq(Places) /\ Len(jstack') = L + 1 /\ L \in Nat
        /\ \A n \in 1..L : jstack'[n] = jstack[n]
        /\ jstack'[L + 1] = j /\ Range(jstack') = Range(jstack) \cup {j}
    BY <1>2, <1>5, AppendIs
  <2> QED
    BY <1>5, <2>1
<1>13. /\ C \in Nat /\ DOMAIN cstack = 1..C /\ cstack' \in Seq(Places) /\ DOMAIN cstack' = 1..(C + 1)
       /\ \A n \in 1..C : cstack'[n] = cstack[n]
       /\ cstack'[C + 1] = j /\ Range(cstack') = Range(cstack) \cup {j}
  <2>1. /\ cstack' \in Seq(Places) /\ Len(cstack') = C + 1 /\ C \in Nat
        /\ \A n \in 1..C : cstack'[n] = cstack[n]
        /\ cstack'[C + 1] = j /\ Range(cstack') = Range(cstack) \cup {j}
    BY <1>2, <1>5, AppendIs
  <2> QED
    BY <1>5, <2>1
<1>14. jstack = <<>> <=> L = 0
  BY <1>5
<1>15. jstack # <<>> => L \in 1..L /\ Top = jstack[L]
  BY <1>1, <1>12, TopIs
<1> HIDE DEF L, C
<1>16. \A n \in 1..(L + 1) : n \in 1..L \/ n = L + 1
  BY <1>12
<1>17. \A n \in 1..L : jstack[n] \in Pool /\ jstack'[n] = jstack[n] /\ time'[jstack[n]] = time[jstack[n]]
  BY <1>1, <1>11, <1>12 DEF CallsInv
<1>18. BtfTypeOK'
  <2>1. timestamp' \in Nat
    BY <1>2, <1>5
  <2> QED
    BY <1>1, <1>3, <1>7, <1>8, <1>9, <1>12, <1>13, <2>1 DEF BtfTypeOK, matching
<1>19. TimesInv'
  <2>1. \A i \in Places : time'[i] <= timestamp'
    <3> TAKE i \in Places
    <3> QED
      BY <1>2, <1>5, <1>6, <1>7
  <2>2. \A i, k \in Places : time'[i] = time'[k] /\ time'[i] # 0 => i = k
    <3>1. \A i \in Places : time[i] # timestamp + 1
      BY <1>5, <1>6
    <3> QED
      BY <1>1, <1>7, <3>1 DEF TimesInv
  <2>3. \A i \in Pool' : low'[i] <= time'[i]
    <3> TAKE i \in Pool'
    <3>1. CASE i = j
      BY <1>5, <1>7, <1>8, <3>1
    <3>2. CASE i \in Pool
      BY <1>1, <1>11, <3>2 DEF TimesInv
    <3> QED
      BY <1>10, <3>1, <3>2
  <2>4. \A i \in Places : flag'[i] <= blocks' /\ (time'[i] = 0 => flag'[i] = 0)
    BY <1>1, <1>3, <1>7 DEF TimesInv
  <2> QED
    BY <2>1, <2>2, <2>3, <2>4 DEF TimesInv
<1>20. CallsInv'
  <2>1. Range(cstack') = Pool'
    BY <1>1, <1>10, <1>13 DEF CallsInv
  <2>2. \A m, n \in 1..(C + 1) : m < n => time'[cstack'[m]] < time'[cstack'[n]]
    <3> SUFFICES ASSUME NEW m \in 1..(C + 1), NEW n \in 1..(C + 1), m < n
                 PROVE  time'[cstack'[m]] < time'[cstack'[n]]
      OBVIOUS
    <3>1. m \in 1..C /\ (n \in 1..C \/ n = C + 1)
      BY <1>13
    <3>2. \A k \in 1..C : cstack[k] \in Pool /\ cstack'[k] = cstack[k]
      BY <1>1, <1>13 DEF CallsInv, Range
    <3>3. time'[cstack'[m]] = time[cstack[m]] /\ cstack[m] \in Pool
      BY <1>11, <3>1, <3>2
    <3>4. CASE n \in 1..C
      <4>1. time[cstack[m]] < time[cstack[n]]
        BY <1>1, <1>13, <3>1, <3>4 DEF CallsInv
      <4> QED
        BY <1>11, <3>2, <3>3, <3>4, <4>1
    <3>5. CASE n = C + 1
      BY <1>11, <1>13, <3>3, <3>5
    <3> QED
      BY <3>1, <3>4, <3>5
  <2>3. \A n \in 1..(L + 1) : jstack'[n] \in Pool'
    BY <1>10, <1>12, <1>16, <1>17
  <2>4. \A m, n \in 1..(L + 1) : m < n => time'[jstack'[m]] < time'[jstack'[n]]
    <3> SUFFICES ASSUME NEW m \in 1..(L + 1), NEW n \in 1..(L + 1), m < n
                 PROVE  time'[jstack'[m]] < time'[jstack'[n]]
      OBVIOUS
    <3>1. m \in 1..L /\ (n \in 1..L \/ n = L + 1)
      BY <1>12
    <3>2. time'[jstack'[m]] = time[jstack[m]] /\ jstack[m] \in Pool
      BY <1>17, <3>1
    <3>3. CASE n \in 1..L
      <4>1. time[jstack[m]] < time[jstack[n]]
        BY <1>1, <1>12, <3>1, <3>3 DEF CallsInv
      <4> QED
        BY <1>17, <3>2, <3>3, <4>1
    <3>4. CASE n = L + 1
      BY <1>11, <1>12, <3>2, <3>4
    <3> QED
      BY <3>1, <3>3, <3>4
  <2>5. \A n \in 1..(L + 1) : n > 1 => jstack'[n] \in Edges[jstack'[n - 1]]
    <3> SUFFICES ASSUME NEW n \in 1..(L + 1), n > 1
                 PROVE  jstack'[n] \in Edges[jstack'[n - 1]]
      OBVIOUS
    <3>1. n - 1 \in 1..L
      BY <1>12
    <3>2. jstack'[n - 1] = jstack[n - 1]
      BY <1>17, <3>1
    <3>3. CASE n \in 1..L
      <4>1. jstack[n] \in Edges[jstack[n - 1]]
        BY <1>1, <1>12, <3>3 DEF CallsInv
      <4> QED
        BY <1>17, <3>2, <3>3, <4>1
    <3>4. CASE n = L + 1
      <4>1. jstack # <<>> /\ n - 1 = L
        BY <1>12, <1>14, <3>1, <3>4
      <4>2. j \in Edges[jstack[L]]
        BY <1>4, <1>15, <1>17, <4>1
      <4> QED
        BY <1>12, <3>2, <3>4, <4>1, <4>2
    <3> QED
      BY <1>16, <3>3, <3>4
  <2>6. \A i \in Pool' : time'[jstack'[1]] <= time'[i]
    <3> TAKE i \in Pool'
    <3>1. CASE jstack = <<>>
      <4>1. L = 0 /\ i = j
        BY <1>1, <1>10, <1>14, <3>1 DEF CallsInv
      <4>2. jstack'[1] = j
        BY <1>12, <4>1
      <4> QED
        BY <1>5, <1>7, <4>1, <4>2
    <3>2. CASE jstack # <<>>
      <4>1. 1 \in 1..L
        BY <1>12, <1>15, <3>2
      <4>2. jstack'[1] = jstack[1] /\ jstack[1] \in Pool /\ time'[jstack'[1]] = time[jstack[1]]
        BY <1>17, <4>1
      <4>3. CASE i = j
        BY <1>5, <1>7, <1>11, <4>2, <4>3
      <4>4. CASE i \in Pool
        <5>1. time[jstack[1]] <= time[i]
          BY <1>1, <4>4 DEF CallsInv
        <5> QED
          BY <1>11, <4>2, <4>4, <5>1
      <4> QED
        BY <1>10, <4>3, <4>4
    <3> QED
      BY <3>1, <3>2
  <2> QED
    BY <1>3, <1>12, <1>13, <2>1, <2>2, <2>3, <2>4, <2>5, <2>6 DEF CallsInv
<1>21. EdgesInv'
  <2> SUFFICES ASSUME NEW i \in Places, time'[i] # 0
               PROVE  /\ pstack'[i] \subseteq Edges[i]
                      /\ i \in Range(jstack') \/ pstack'[i] = {}
                      /\ \A k \in Edges[i] \ pstack'[i] :
                           time'[k] # 0 /\ (i \in Pool' /\ k \in Pool' => low'[i] <= time'[k])
    BY <1>3 DEF EdgesInv
  <2>1. CASE i = j
    BY <1>9, <1>12, <2>1
  <2>2. CASE i # j
    <3>1. /\ time[i] # 0 /\ pstack'[i] = remaining[i] /\ low'[i] = low[i]
          /\ remaining[i] \subseteq pstack[i] /\ \A k \in pstack[i] \ remaining[i] : k = j
      BY <1>7, <1>8, <1>9, <2>2
    <3>2. /\ pstack[i] \subseteq Edges[i] /\ (i \in Range(jstack) \/ pstack[i] = {})
          /\ \A k \in Edges[i] \ pstack[i] :
               time[k] # 0 /\ (i \in Pool /\ k \in Pool => low[i] <= time[k])
      BY <1>1, <3>1 DEF EdgesInv
    <3>3. ASSUME NEW k \in Edges[i] \ pstack'[i]
          PROVE  time'[k] # 0 /\ (i \in Pool' /\ k \in Pool' => low'[i] <= time'[k])
      <4>1. k \in Places
        BY <1>4
      <4>2. CASE k = j
        <5>1. i \in Pool' => i \in Pool /\ low[i] <= time[i]
          BY <1>1, <1>10, <2>2 DEF TimesInv
        <5>2. i \in Pool' => low[i] <= time'[j]
          BY <1>5, <1>6, <1>7, <1>11, <5>1
        <5>3. time'[j] # 0
          BY <1>5, <1>7
        <5> QED
          BY <3>1, <4>2, <5>2, <5>3
      <4>3. CASE k # j
        <5>1. time[k] # 0 /\ (i \in Pool /\ k \in Pool => low[i] <= time[k])
          BY <3>1, <3>2, <4>3
        <5> QED
          BY <1>7, <1>10, <2>2, <3>1, <4>1, <4>3, <5>1
      <4> QED
        BY <4>2, <4>3
    <3> QED
      BY <1>12, <3>1, <3>2, <3>3
  <2> QED
    BY <2>1, <2>2
<1>22. ClosedInv' /\ BlocksInv'
  BY <1>1, <1>3 DEF ClosedInv, BlocksInv
<1>23. LowInv'
  <2>1. \A i \in Pool' : i \in Range(jstack') \/ low'[i] < time'[i]
    BY <1>1, <1>10, <1>11, <1>12 DEF LowInv
  <2>2. ASSUME NEW n \in 1..(L + 1), NEW i \in Pool', Beneath(n, i)'
        PROVE  low'[jstack'[n]] <= low'[i]
    <3>1. time'[jstack'[n]] < time'[i] /\ (n < L + 1 => time'[i] < time'[jstack'[n + 1]])
      BY <1>12, <2>2 DEF Beneath
    <3>2. \A k \in Pool' : time'[k] \in Nat /\ time'[k] <= time'[j]
      BY <1>5, <1>7, <1>10, <1>11
    <3>3. n # L + 1
      BY <1>7, <1>10, <1>12, <3>1, <3>2
    <3>4. n \in 1..L /\ n < L + 1 /\ n + 1 \in 1..(L + 1)
      BY <1>12, <3>3
    <3>5. i \in Pool
      <4>1. time'[jstack'[n + 1]] <= time'[j] /\ time'[jstack'[n + 1]] \in Nat
        BY <1>10, <1>12, <1>16, <1>17, <3>2, <3>4
      <4>2. i # j
        BY <1>10, <3>1, <3>2, <3>4, <4>1
      <4> QED
        BY <1>10, <4>2
    <3>6. Beneath(n, i)
      <4>1. time[jstack[n]] < time[i]
        BY <1>11, <1>17, <3>1, <3>4, <3>5
      <4>2. ASSUME n < L PROVE time[i] < time[jstack[n + 1]]
        <5>1. n + 1 \in 1..L
          BY <1>12, <3>4, <4>2
        <5> QED
          BY <1>11, <1>17, <3>1, <3>4, <3>5, <5>1
      <4> QED
        BY <4>1, <4>2 DEF Beneath, L
    <3>7. low[jstack[n]] <= low[i]
      BY <1>1, <1>12, <3>4, <3>5, <3>6 DEF LowInv
    <3> QED
      BY <1>11, <1>17, <3>4, <3>5, <3>7
  <2>3. ASSUME NEW T \in SUBSET Places, Open(T)', NEW i \in T
        PROVE  \E w \in T : time'[w] = low'[i]
    <3>1. T \subseteq Pool \cup {j} /\ \A t \in T : Edges[t] \cap (Pool \cup {j}) \subseteq T
      BY <1>3, <1>10, <2>3 DEF Open
    <3>2. CASE i = j
      BY <1>7, <1>8, <3>2
    <3>3. CASE i # j
      <4>1. Open(T \ {j})
        BY <1>10, <3>1 DEF Open
      <4>2. PICK w \in T \ {j} : time[w] = low[i]
        BY <1>1, <3>3, <4>1 DEF LowInv
      <4> QED
        BY <1>7, <1>8, <3>3, <4>2
    <3> QED
      BY <3>2, <3>3
  <2> QED
    BY <1>12, <2>1, <2>2, <2>3 DEF LowInv
<1>24. ParentInv'
  <2> SUFFICES ASSUME NEW n \in 1..(L + 1), NEW i \in Pool', time'[jstack'[n]] < time'[i]
               PROVE  \E k \in Pool' : /\ i \in Edges[k]
                                        /\ time'[jstack'[n]] <= time'[k] /\ time'[k] < time'[i]
    BY <1>3, <1>12 DEF ParentInv
  <2>1. n \in 1..L
    <3>1. CASE n = L + 1
      <4>1. time'[i] <= time'[j] /\ time'[i] \in Nat /\ time'[j] \in Nat
        BY <1>5, <1>7, <1>10, <1>11
      <4> QED
        BY <1>12, <3>1, <4>1
    <3> QED
      BY <1>16, <3>1
  <2>2. jstack'[n] = jstack[n] /\ time'[jstack'[n]] = time[jstack[n]] /\ jstack[n] \in Pool
    BY <1>17, <2>1
  <2>3. CASE i = j
    <3>1. jstack # <<>>
      BY <1>12, <1>14, <2>1
    <3>2. Top \in Pool /\ j \in Edges[Top]
      BY <1>4, <1>15, <1>17, <3>1
    <3>3. time[jstack[n]] <= time[Top]
      <4>1. n < L \/ n = L
        BY <1>12, <2>1
      <4>2. n < L => time[jstack[n]] < time[jstack[L]]
        BY <1>1, <1>12, <1>15, <2>1, <3>1 DEF CallsInv
      <4> QED
        BY <1>11, <1>15, <1>17, <2>2, <3>1, <3>2, <4>1, <4>2
    <3>4. Top \in Pool' /\ time'[Top] = time[Top] /\ time[Top] < time'[j]
      BY <1>10, <1>11, <3>2
    <3> QED
      BY <2>2, <2>3, <3>2, <3>3, <3>4
  <2>4. CASE i \in Pool
    <3>1. time[jstack[n]] < time[i] /\ time'[i] = time[i]
      BY <1>11, <2>2, <2>4
    <3>2. PICK k \in Pool : i \in Edges[k] /\ time[jstack[n]] <= time[k] /\ time[k] < time[i]
      BY <1>1, <1>12, <2>1, <2>4, <3>1 DEF ParentInv
    <3>3. k \in Pool' /\ time'[k] = time[k]
      BY <1>10, <1>11
    <3> QED
      BY <2>2, <3>1, <3>2, <3>3
  <2> QED
    BY <1>10, <2>3, <2>4
<1>25. OrderInv'
  BY <1>1, <1>3 DEF OrderInv
<1> QED
  BY <1>18, <1>19, <1>20, <1>21, <1>22, <1>23, <1>24, <1>25, SearchStep

\* A root, when the stacks are empty.
LEMMA SearchRootKeepsInv == ASSUME BtfInv, SearchRoot PROVE BtfInv'
<1>1. /\ Searching /\ jstack = <<>> /\ Unreached # {} /\ EnterNode(Lowest(Unreached), pstack)
      /\ UNCHANGED <<sparsity, matching, flag, blocks, order>>
  BY DEF SearchRoot
<1>2. BtfTypeOK
  BY DEF BtfInv
<1>3. Unreached \in SUBSET Nat
  BY <1>2, BtfTypes DEF Unreached
<1>4. Lowest(Unreached) \in Unreached
  BY <1>1, <1>3, LowestIs
<1>5. PICK j \in Places : j = Lowest(Unreached) /\ time[j] = 0
  BY <1>4 DEF Unreached, Unvisited
<1>6. pstack \in [Places -> SUBSET Places]
  BY <1>2 DEF BtfTypeOK
<1> QED
  BY <1>1, <1>5, <1>6, EnterNodeKeepsInv

\* The path of the search while it is not empty.
LEMMA TopOfSearch ==
  ASSUME BtfInv, Searching, jstack # <<>>
  PROVE  /\ Top \in Pool /\ Top \in Places /\ Top \in Range(jstack)
         /\ Len(jstack) \in Nat \ {0} /\ DOMAIN jstack = 1..Len(jstack) /\ jstack[Len(jstack)] = Top
         /\ \A n \in 1..Len(jstack) : jstack[n] \in Pool /\ jstack[n] \in Places
         /\ \A n \in 1..Len(jstack) : n < Len(jstack) => time[jstack[n]] < time[Top]
         /\ pstack[Top] \subseteq Edges[Top]
         /\ \A i \in Pool : time[jstack[1]] <= time[i]
<1>1. /\ BtfTypeOK /\ CallsInv /\ EdgesInv
      /\ \A i \in Places : i \in Pool <=> time[i] # 0 /\ flag[i] = 0
  BY InTheSearch
<1>2. /\ Len(jstack) \in Nat \ {0} /\ DOMAIN jstack = 1..Len(jstack) /\ jstack[Len(jstack)] = Top
      /\ Top \in Places /\ Top \in Range(jstack) /\ Len(jstack) \in 1..Len(jstack)
  BY <1>1, TopIs, BtfTypes
<1>3. \A n \in 1..Len(jstack) : jstack[n] \in Pool
  BY <1>1, <1>2 DEF CallsInv
<1>4. \A n \in 1..Len(jstack) : n < Len(jstack) => time[jstack[n]] < time[Top]
  BY <1>1, <1>2 DEF CallsInv
<1>5. pstack[Top] \subseteq Edges[Top]
  BY <1>1, <1>2, <1>3 DEF EdgesInv
<1>6. \A i \in Pool : time[jstack[1]] <= time[i]
  BY <1>1 DEF CallsInv
<1>7. \A n \in 1..Len(jstack) : jstack[n] \in Places
  BY <1>1, <1>2, BtfTypes
<1> QED
  BY <1>2, <1>3, <1>4, <1>5, <1>6, <1>7

\* An edge to a node entered before, which lowers the top if it is in no block.
LEMMA SeenEdgeKeepsInv ==
  ASSUME BtfInv, Searching, jstack # <<>>, NEW i \in pstack[Top], time[i] # 0,
         pstack' = [pstack EXCEPT ![Top] = @ \ {i}],
         low' = IF i \in Pool THEN [low EXCEPT ![Top] = Lesser(@, time[i])] ELSE low,
         UNCHANGED <<jstack, cstack, timestamp, time>>,
         UNCHANGED <<sparsity, matching, flag, blocks, order>>
  PROVE  BtfInv'
<1>1. /\ BtfTypeOK /\ TimesInv /\ CallsInv /\ EdgesInv /\ ClosedInv
      /\ LowInv /\ ParentInv /\ BlocksInv /\ order = Unordered
  BY InTheSearch
<1>2. /\ jstack' = jstack /\ cstack' = cstack /\ timestamp' = timestamp /\ time' = time
      /\ flag' = flag /\ blocks' = blocks /\ order' = order /\ sparsity' = sparsity /\ Edges' = Edges
  BY SameEdges
<1>3. Pool' = Pool
  BY <1>2 DEF Pool, Unassigned
<1>4. /\ Pool \subseteq Places
      /\ \A j \in Places : Edges[j] \subseteq Places
  BY InTheSearch
<1> DEFINE L == Len(jstack)
<1>5. /\ Top \in Pool /\ Top \in Places /\ Top \in Range(jstack) /\ L \in Nat \ {0} /\ DOMAIN jstack = 1..L
      /\ jstack[L] = Top /\ \A n \in 1..L : jstack[n] \in Pool
      /\ \A n \in 1..L : n < L => time[jstack[n]] < time[Top]
      /\ pstack[Top] \subseteq Edges[Top]
  BY TopOfSearch
<1> HIDE DEF L
<1>6. /\ time \in [Places -> Nat] /\ low \in [Places -> Nat] /\ pstack \in [Places -> SUBSET Places]
      /\ i \in Places /\ i \in Edges[Top]
  BY <1>1, <1>4, <1>5 DEF BtfTypeOK
<1>7. \A j \in Places : time[j] \in Nat /\ low[j] \in Nat
  BY <1>6
<1>8. /\ pstack' \in [Places -> SUBSET Places] /\ pstack'[Top] = pstack[Top] \ {i}
      /\ \A j \in Places : j # Top => pstack'[j] = pstack[j]
  BY <1>5, <1>6
<1>9. /\ low' \in [Places -> Nat] /\ \A j \in Places : j # Top => low'[j] = low[j]
      /\ \A j \in Places : low'[j] <= low[j] /\ low'[j] \in Nat
      /\ i \in Pool => low'[Top] <= time[i]
      /\ low'[Top] = low[Top] \/ (i \in Pool /\ low'[Top] = time[i])
  <2>1. CASE i \notin Pool
    BY <1>6, <1>7, <2>1
  <2>2. CASE i \in Pool
    <3>1. Lesser(low[Top], time[i]) \in Nat
      BY <1>5, <1>6, <1>7 DEF Lesser
    <3>2. low' = [low EXCEPT ![Top] = Lesser(low[Top], time[i])]
      BY <2>2
    <3>3. /\ low' \in [Places -> Nat] /\ \A j \in Places : j # Top => low'[j] = low[j]
          /\ low'[Top] = Lesser(low[Top], time[i])
      BY <1>5, <1>6, <3>1, <3>2
    <3>4. /\ low'[Top] <= low[Top] /\ low'[Top] <= time[i]
          /\ low'[Top] = low[Top] \/ low'[Top] = time[i]
      BY <1>5, <1>6, <1>7, <3>3 DEF Lesser
    <3> QED
      BY <1>5, <1>7, <2>2, <3>3, <3>4
  <2> QED
    BY <2>1, <2>2
<1>10. BtfTypeOK'
  BY <1>1, <1>2, <1>8, <1>9 DEF BtfTypeOK, matching
<1>11. TimesInv'
  <2>1. \A j \in Pool : low'[j] <= time[j]
    <3> TAKE j \in Pool
    <3>1. j \in Places /\ low[j] <= time[j]
      BY <1>1, <1>4 DEF TimesInv
    <3> QED
      BY <1>7, <1>9, <3>1
  <2> QED
    BY <1>1, <1>2, <1>3, <2>1 DEF TimesInv
<1>12. CallsInv'
  BY <1>1, <1>2, <1>3 DEF CallsInv
<1>13. EdgesInv'
  <2> SUFFICES ASSUME NEW j \in Places, time[j] # 0
               PROVE  /\ pstack'[j] \subseteq Edges[j]
                      /\ j \in Range(jstack) \/ pstack'[j] = {}
                      /\ \A k \in Edges[j] \ pstack'[j] :
                           time[k] # 0 /\ (j \in Pool /\ k \in Pool => low'[j] <= time[k])
    BY <1>2, <1>3 DEF EdgesInv
  <2>1. /\ pstack[j] \subseteq Edges[j] /\ (j \in Range(jstack) \/ pstack[j] = {})
        /\ \A k \in Edges[j] \ pstack[j] :
             time[k] # 0 /\ (j \in Pool /\ k \in Pool => low[j] <= time[k])
    BY <1>1 DEF EdgesInv
  <2>2. ASSUME NEW k \in Edges[j] \ pstack'[j]
        PROVE  time[k] # 0 /\ (j \in Pool /\ k \in Pool => low'[j] <= time[k])
    <3>1. k \in Places
      BY <1>4
    <3>2. CASE k \in pstack[j]
      <4>1. j = Top /\ k = i
        BY <1>8, <3>2
      <4> QED
        BY <1>9, <4>1
    <3>3. CASE k \notin pstack[j]
      <4>1. time[k] # 0 /\ (j \in Pool /\ k \in Pool => low[j] <= time[k])
        BY <2>1, <3>3
      <4> QED
        BY <1>7, <1>9, <3>1, <4>1
    <3> QED
      BY <3>2, <3>3
  <2> QED
    BY <1>5, <1>8, <2>1, <2>2
<1>14. ClosedInv' /\ BlocksInv' /\ ParentInv'
  BY <1>1, <1>2, <1>3 DEF ClosedInv, BlocksInv, ParentInv
<1>15. LowInv'
  <2>1. \A j \in Pool : j \in Range(jstack) \/ low'[j] < time[j]
    <3> TAKE j \in Pool
    <3>1. j \in Places /\ (j \in Range(jstack) \/ low[j] < time[j])
      BY <1>1, <1>4 DEF LowInv
    <3> QED
      BY <1>5, <1>9, <3>1
  <2>2. ASSUME NEW n \in 1..L, NEW j \in Pool, Beneath(n, j) PROVE low'[jstack[n]] <= low'[j]
    <3>1. j # Top
      <4> SUFFICES ASSUME j = Top PROVE FALSE
        OBVIOUS
      <4>1. time[jstack[n]] < time[Top] /\ (n < L => time[Top] < time[jstack[n + 1]])
        BY <2>2 DEF Beneath, L
      <4>2. n < L
        BY <1>5, <1>7, <4>1
      <4>3. n + 1 \in 1..L /\ jstack[n + 1] \in Places
        BY <1>4, <1>5, <4>2
      <4>4. n + 1 < L \/ n + 1 = L
        BY <1>5, <4>3
      <4> QED
        BY <1>5, <1>7, <4>1, <4>2, <4>3, <4>4
    <3>2. low[jstack[n]] <= low[j]
      BY <1>1, <1>5, <2>2 DEF LowInv
    <3>3. j \in Places /\ jstack[n] \in Places
      BY <1>4, <1>5
    <3> QED
      BY <1>7, <1>9, <3>1, <3>2, <3>3
  <2>3. ASSUME NEW T \in SUBSET Places, Open(T), NEW j \in T
        PROVE  \E w \in T : time[w] = low'[j]
    <3>1. CASE low'[j] = low[j]
      BY <1>1, <2>3, <3>1 DEF LowInv
    <3>2. CASE low'[j] # low[j]
      <4>1. j = Top /\ i \in Pool /\ low'[j] = time[i]
        BY <1>9, <3>2
      <4>2. i \in T
        BY <1>6, <2>3, <4>1 DEF Open
      <4> QED
        BY <4>1, <4>2
    <3> QED
      BY <3>1, <3>2
  <2>4. \A n, j : Beneath(n, j)' <=> Beneath(n, j)
    BY <1>2 DEF Beneath
  <2>5. \A T : Open(T)' <=> Open(T)
    BY <1>2, <1>3 DEF Open
  <2> QED
    BY <1>2, <1>3, <1>5, <2>1, <2>2, <2>3, <2>4, <2>5 DEF LowInv
<1>16. OrderInv'
  BY <1>1, <1>2 DEF OrderInv
<1> QED
  BY <1>10, <1>11, <1>12, <1>13, <1>14, <1>15, <1>16, SearchStep

LEMMA ScanEdgeKeepsInv == ASSUME BtfInv, ScanEdge PROVE BtfInv'
<1>1. Searching /\ jstack # <<>> /\ UNCHANGED <<sparsity, matching, flag, blocks, order>>
  BY DEF ScanEdge
<1>2. PICK i \in pstack[Top] :
        LET remaining == [pstack EXCEPT ![Top] = @ \ {i}] IN
        IF Unvisited(i) THEN EnterNode(i, remaining)
        ELSE /\ pstack' = remaining
             /\ low' = IF Lowers(i) THEN [low EXCEPT ![Top] = Lesser(@, time[i])] ELSE low
             /\ UNCHANGED <<jstack, cstack, timestamp, time>>
  BY DEF ScanEdge
<1>3. /\ Top \in Places /\ pstack \in [Places -> SUBSET Places] /\ i \in Places
      /\ i \in Targets(Top) /\ (i \in Pool <=> Unassigned(i))
  <2>1. Top \in Places /\ pstack[Top] \subseteq Edges[Top]
    BY <1>1, TopOfSearch
  <2>2. pstack \in [Places -> SUBSET Places]
    BY DEF BtfInv, BtfTypeOK
  <2>3. Edges[Top] = Targets(Top)
    BY <2>1 DEF Edges
  <2> QED
    BY <2>1, <2>2, <2>3 DEF Pool
<1>4. CASE time[i] = 0
  <2> DEFINE remaining == [pstack EXCEPT ![Top] = @ \ {i}]
  <2>1. EnterNode(i, remaining)
    BY <1>2, <1>4 DEF Unvisited
  <2>2. /\ remaining \in [Places -> SUBSET Places] /\ remaining[Top] = pstack[Top] \ {i}
        /\ \A j \in Places : j # Top => remaining[j] = pstack[j]
    BY <1>3
  <2> HIDE DEF remaining
  <2>3. \A j \in Places : time[j] # 0 =>
          remaining[j] \subseteq pstack[j] /\ \A k \in pstack[j] \ remaining[j] : k = i
    BY <2>2
  <2> QED
    BY <1>1, <1>3, <1>4, <2>1, <2>2, <2>3, EnterNodeKeepsInv
<1>5. CASE time[i] # 0
  <2>1. /\ pstack' = [pstack EXCEPT ![Top] = @ \ {i}]
        /\ low' = IF i \in Pool THEN [low EXCEPT ![Top] = Lesser(@, time[i])] ELSE low
        /\ UNCHANGED <<jstack, cstack, timestamp, time>>
    BY <1>2, <1>3, <1>5 DEF Unvisited, Lowers
  <2> QED
    BY <1>1, <1>5, <2>1, SeenEdgeKeepsInv
<1> QED
  BY <1>4, <1>5

\* What is on cstack from the top of the path up has been entered since.
LEMMA MembersAre ==
  ASSUME BtfInv, Searching, jstack # <<>>, CloseBlock
  PROVE  LET M == {i \in Pool : time[Top] <= time[i]} IN
         /\ cstack' \in Seq(Places) /\ Range(cstack') = Pool \ M
         /\ \A m, n \in DOMAIN cstack' : m < n => time[cstack'[m]] < time[cstack'[n]]
         /\ flag' = [i \in Places |-> IF i \in M THEN blocks + 1 ELSE flag[i]]
         /\ blocks' = blocks + 1
<1> DEFINE M == {i \in Pool : time[Top] <= time[i]}
           root == CHOOSE n \in DOMAIN cstack : cstack[n] = Top
           C == Len(cstack)
<1>1. BtfTypeOK /\ CallsInv /\ TimesInv
  BY InTheSearch
<1>2. Top \in Pool /\ Pool \subseteq Places /\ time \in [Places -> Nat]
  BY <1>1, TopOfSearch, InTheSearch DEF BtfTypeOK
<1>3. cstack \in Seq(Places) /\ C \in Nat /\ DOMAIN cstack = 1..C
  BY <1>1, BtfTypes DEF BtfTypeOK
<1>4. /\ Pool = {cstack[n] : n \in 1..C}
      /\ \A m, n \in 1..C : m < n => time[cstack[m]] < time[cstack[n]]
  BY <1>1, <1>3 DEF CallsInv, Range
<1>5. root \in 1..C /\ cstack[root] = Top
  <2>1. \E n \in DOMAIN cstack : cstack[n] = Top
    BY <1>2, <1>3, <1>4
  <2>2. root \in DOMAIN cstack /\ cstack[root] = Top
    BY <2>1
  <2> QED
    BY <1>3, <2>2
<1>6. /\ cstack' = SubSeq(cstack, 1, root - 1) /\ blocks' = blocks + 1
      /\ flag' = [i \in Places |->
                    IF i \in Range(SubSeq(cstack, root, C)) THEN blocks + 1 ELSE flag[i]]
  BY DEF CloseBlock
<1> HIDE DEF root, C
<1>7. \A n \in 1..C : cstack[n] \in Pool /\ time[cstack[n]] \in Nat
  BY <1>2, <1>4
<1>8. \A n \in 1..C : cstack[n] \in M <=> root <= n
  <2> TAKE n \in 1..C
  <2>1. CASE n < root
    <3>1. time[cstack[n]] < time[Top]
      BY <1>4, <1>5, <2>1
    <3> QED
      BY <1>3, <1>5, <1>7, <2>1, <3>1
  <2>2. CASE n = root
    BY <1>3, <1>5, <1>7, <2>2
  <2>3. CASE root < n
    <3>1. time[Top] < time[cstack[n]]
      BY <1>4, <1>5, <2>3
    <3> QED
      BY <1>3, <1>5, <1>7, <2>3, <3>1
  <2> QED
    BY <1>3, <1>5, <2>1, <2>2, <2>3
<1>9. /\ SubSeq(cstack, 1, root - 1) \in Seq(Places) /\ Len(SubSeq(cstack, 1, root - 1)) = root - 1
      /\ \A n \in 1..(root - 1) : SubSeq(cstack, 1, root - 1)[n] = cstack[n]
  <2> DEFINE m == root - 1
  <2>1. m \in Nat /\ m <= C
    BY <1>3, <1>5
  <2> HIDE DEF m
  <2>2. SubSeq(cstack, 1, m) \in Seq(Places) /\ Len(SubSeq(cstack, 1, m)) = m
    BY <1>3, <2>1 DEF C
  <2>3. \A n \in 1..m : SubSeq(cstack, 1, m)[n] = cstack[n]
    BY <1>3, <2>1 DEF C
  <2> QED
    BY <2>2, <2>3 DEF m
<1>10. DOMAIN cstack' = 1..(root - 1)
  BY <1>6, <1>9
<1>11. \A n \in 1..(root - 1) : n \in 1..C /\ cstack'[n] = cstack[n]
  BY <1>3, <1>5, <1>6, <1>9
<1>12. Range(cstack') = Pool \ M
  <2>1. Range(cstack') = {cstack'[n] : n \in 1..(root - 1)}
    BY <1>10 DEF Range
  <2>2. \A i \in Range(cstack') : i \in Pool /\ i \notin M
    <3> SUFFICES ASSUME NEW n \in 1..(root - 1) PROVE cstack'[n] \in Pool /\ cstack'[n] \notin M
      BY <2>1
    <3>1. ~(root <= n)
      BY <1>3, <1>5
    <3> QED
      BY <1>7, <1>8, <1>11, <3>1
  <2>3. \A i \in Pool \ M : i \in Range(cstack')
    <3> TAKE i \in Pool \ M
    <3>1. PICK n \in 1..C : i = cstack[n]
      BY <1>4
    <3>2. n \in 1..(root - 1)
      BY <1>3, <1>5, <1>8, <3>1
    <3> QED
      BY <1>11, <2>1, <3>1, <3>2
  <2> QED
    BY <2>2, <2>3
<1>13. \A m, n \in DOMAIN cstack' : m < n => time[cstack'[m]] < time[cstack'[n]]
  BY <1>4, <1>10, <1>11
<1>14. Range(SubSeq(cstack, root, C)) = M
  <2> DEFINE t == SubSeq(cstack, root, C)
  <2>1. /\ Len(t) = C - root + 1 /\ DOMAIN t = 1..(C - root + 1)
        /\ \A n \in 1..(C - root + 1) : t[n] = cstack[root + n - 1]
    BY <1>3, <1>5
  <2> HIDE DEF t
  <2>2. Range(t) = {t[n] : n \in 1..(C - root + 1)}
    BY <2>1 DEF Range
  <2>3. \A n \in 1..(C - root + 1) : t[n] \in M
    <3> TAKE n \in 1..(C - root + 1)
    <3>1. root + n - 1 \in 1..C /\ root <= root + n - 1
      BY <1>3, <1>5
    <3> QED
      BY <1>8, <2>1, <3>1
  <2>4. \A i \in M : i \in Range(t)
    <3> TAKE i \in M
    <3>1. PICK n \in 1..C : i = cstack[n]
      BY <1>4
    <3>2. n - root + 1 \in 1..(C - root + 1) /\ root + (n - root + 1) - 1 = n
      BY <1>3, <1>5, <1>8, <3>1
    <3>3. t[n - root + 1] = i
      BY <2>1, <3>1, <3>2
    <3> QED
      BY <2>2, <3>2, <3>3
  <2> QED
    BY <2>2, <2>3, <2>4 DEF t
<1> QED
  BY <1>6, <1>9, <1>12, <1>13, <1>14

\* Edges from what was entered since the top's own entry stay there or lead to
\* blocks, once the top has nothing earlier to reach.
LEMMA MembersAreClosed ==
  ASSUME BtfInv, Searching, jstack # <<>>, pstack[Top] = {}, low[Top] = time[Top],
         NEW i \in Pool, time[Top] <= time[i], NEW k \in Edges[i]
  PROVE  /\ time[k] # 0 /\ (k \in Pool => time[Top] <= time[k])
<1>1. /\ BtfTypeOK /\ TimesInv /\ CallsInv /\ EdgesInv /\ LowInv
      /\ Pool \subseteq Places /\ \A j \in Places : j \in Pool <=> time[j] # 0 /\ flag[j] = 0
      /\ \A j \in Places : Edges[j] \subseteq Places
  BY InTheSearch
<1> DEFINE L == Len(jstack)
<1>2. /\ Top \in Pool /\ Top \in Places /\ L \in Nat \ {0} /\ DOMAIN jstack = 1..L
      /\ jstack[L] = Top /\ \A n \in 1..L : jstack[n] \in Pool
      /\ \A n \in 1..L : n < L => time[jstack[n]] < time[Top]
  BY TopOfSearch
<1> HIDE DEF L
<1>3. \A j \in Places : time[j] \in Nat /\ low[j] \in Nat
  BY <1>1 DEF BtfTypeOK
<1>4. i \in Places /\ k \in Places /\ time[i] # 0
  BY <1>1
<1>5. i = Top \/ i \notin Range(jstack)
  <2> SUFFICES ASSUME i \in Range(jstack) PROVE i = Top
    OBVIOUS
  <2>1. PICK n \in 1..L : i = jstack[n]
    BY <1>2 DEF Range
  <2>2. ~(n < L)
    BY <1>2, <1>3, <1>4, <2>1
  <2>3. n = L
    BY <1>2, <2>2
  <2> QED
    BY <1>2, <2>1, <2>3
<1>6. pstack[i] = {}
  BY <1>1, <1>4, <1>5 DEF EdgesInv
<1>7. time[k] # 0 /\ (k \in Pool => low[i] <= time[k])
  BY <1>1, <1>4, <1>6 DEF EdgesInv
<1>8. time[Top] <= low[i]
  <2>1. CASE i = Top
    BY <1>2, <1>3, <2>1
  <2>2. CASE i # Top
    <3>1. time[Top] < time[i]
      BY <1>1, <1>2, <1>3, <1>4, <2>2 DEF TimesInv
    <3>2. Beneath(L, i)
      BY <1>2, <3>1 DEF Beneath, L
    <3>3. L \in DOMAIN jstack
      BY <1>2
    <3>4. low[jstack[L]] <= low[i]
      BY <1>1, <3>2, <3>3 DEF LowInv
    <3> QED
      BY <1>2, <3>4
  <2> QED
    BY <2>1, <2>2
<1> QED
  BY <1>2, <1>3, <1>4, <1>7, <1>8

\* They cannot be split: in a part that no edge leaves for the rest, the node
\* entered first reaches an earlier one unless it is the top, and what the top
\* reaches is all of them.
LEMMA MembersAreOne ==
  ASSUME BtfInv, Searching, jstack # <<>>, pstack[Top] = {}, low[Top] = time[Top],
         NEW T \in SUBSET Places, T # {},
         \A i \in T : i \in Pool /\ time[Top] <= time[i],
         \A i \in T : \A k \in Edges[i] : k \in Pool /\ time[Top] <= time[k] => k \in T
  PROVE  \A i \in Pool : time[Top] <= time[i] => i \in T
<1>1. /\ BtfTypeOK /\ TimesInv /\ CallsInv /\ LowInv /\ ParentInv
      /\ Pool \subseteq Places /\ \A j \in Places : j \in Pool <=> time[j] # 0 /\ flag[j] = 0
  BY InTheSearch
<1> DEFINE L == Len(jstack)
<1>2. /\ Top \in Pool /\ Top \in Places /\ L \in Nat \ {0} /\ DOMAIN jstack = 1..L
      /\ jstack[L] = Top /\ \A n \in 1..L : jstack[n] \in Pool
      /\ \A n \in 1..L : n < L => time[jstack[n]] < time[Top]
  BY TopOfSearch
<1>3. \A j \in Places : time[j] \in Nat /\ low[j] \in Nat
  BY <1>1 DEF BtfTypeOK
<1>4. Open(T)
  <2>1. \A i \in T : Edges[i] \cap Pool \subseteq T
    BY MembersAreClosed
  <2> QED
    BY <2>1 DEF Open
<1>5. ASSUME NEW S \in SUBSET Places, S # {} PROVE \E i \in S : \A k \in S : time[i] <= time[k]
  <2> DEFINE N == {time[k] : k \in S}
  <2>1. N \in SUBSET Nat /\ N # {}
    BY <1>3, <1>5
  <2> HIDE DEF N
  <2>2. Lowest(N) \in N /\ \A t \in N : Lowest(N) <= t
    BY <2>1, LowestIs
  <2>3. PICK i \in S : Lowest(N) = time[i]
    BY <2>2 DEF N
  <2>4. \A k \in S : time[i] <= time[k]
    BY <2>2, <2>3 DEF N
  <2> QED
    BY <2>4
<1>6. Top \in T
  <2>1. PICK i \in T : \A k \in T : time[i] <= time[k]
    BY <1>5
  <2> SUFFICES ASSUME i # Top PROVE FALSE
    BY <2>1
  <2>2. i \notin Range(jstack)
    <3> SUFFICES ASSUME NEW n \in 1..L, i = jstack[n] PROVE FALSE
      BY <1>2 DEF Range
    <3>1. n < L
      BY <1>2
    <3>2. time[jstack[n]] < time[Top]
      BY <1>2, <3>1
    <3> QED
      BY <1>2, <1>3, <3>2
  <2>3. low[i] < time[i]
    BY <1>1, <2>2 DEF LowInv
  <2>4. PICK w \in T : time[w] = low[i]
    BY <1>1, <1>4 DEF LowInv
  <2> QED
    BY <1>3, <2>1, <2>3, <2>4
<1> DEFINE S == {i \in Pool : time[Top] <= time[i] /\ i \notin T}
<1>7. S = {}
  <2> SUFFICES ASSUME S # {} PROVE FALSE
    OBVIOUS
  <2>1. S \in SUBSET Places
    BY <1>1
  <2>2. PICK i \in S : \A k \in S : time[i] <= time[k]
    BY <1>5, <2>1
  <2>3. i \in Pool /\ time[Top] <= time[i] /\ i \notin T /\ i \in Places
    BY <1>1
  <2>4. time[Top] < time[i]
    <3>1. time[Top] # time[i]
      BY <1>1, <1>2, <1>6, <2>3 DEF TimesInv
    <3> QED
      BY <1>2, <1>3, <2>3, <3>1
  <2>5. L \in DOMAIN jstack /\ time[jstack[L]] < time[i]
    BY <1>2, <2>4
  <2>6. PICK k \in Pool : i \in Edges[k] /\ time[jstack[L]] <= time[k] /\ time[k] < time[i]
    BY <1>1, <2>3, <2>5 DEF ParentInv
  <2>7. k \in Places /\ time[Top] <= time[k] /\ ~(time[i] <= time[k])
    BY <1>1, <1>2, <1>3, <2>3, <2>6
  <2>8. k \in T
    BY <2>2, <2>7
  <2> QED
    BY <2>3, <2>6, <2>8
<1> QED
  BY <1>7

\* The first node of a block is left.
LEMMA ClosingKeepsInv ==
  ASSUME BtfInv, LeaveNode, low[Top] = time[Top]
  PROVE  BtfInv'
<1>1. /\ Searching /\ jstack # <<>> /\ pstack[Top] = {} /\ CloseBlock /\ jstack' = Front(jstack)
      /\ low' = IF Len(jstack) = 1 THEN low
                ELSE [low EXCEPT ![jstack[Len(jstack) - 1]] = Lesser(@, low[Top])]
      /\ UNCHANGED <<sparsity, matching, pstack, time, timestamp, order>>
  BY DEF LeaveNode
<1>2. /\ BtfTypeOK /\ TimesInv /\ CallsInv /\ EdgesInv /\ ClosedInv
      /\ LowInv /\ ParentInv /\ BlocksInv /\ order = Unordered
  BY <1>1, InTheSearch
<1>3. /\ Pool \subseteq Places /\ \A j \in Places : j \in Pool <=> time[j] # 0 /\ flag[j] = 0
      /\ \A j \in Places : Edges[j] \subseteq Places
  BY <1>1, InTheSearch
<1>4. /\ pstack' = pstack /\ time' = time /\ timestamp' = timestamp /\ order' = order
      /\ sparsity' = sparsity /\ Edges' = Edges
  BY <1>1, SameEdges
<1> DEFINE L == Len(jstack)
           M == {i \in Pool : time[Top] <= time[i]}
<1>5. /\ Top \in Pool /\ Top \in Places /\ L \in Nat \ {0} /\ DOMAIN jstack = 1..L
      /\ jstack[L] = Top /\ \A n \in 1..L : jstack[n] \in Pool
      /\ \A n \in 1..L : n < L => time[jstack[n]] < time[Top]
      /\ \A i \in Pool : time[jstack[1]] <= time[i]
  BY <1>1, TopOfSearch
<1>6. /\ cstack' \in Seq(Places) /\ Range(cstack') = Pool \ M
      /\ \A m, n \in DOMAIN cstack' : m < n => time[cstack'[m]] < time[cstack'[n]]
      /\ flag' = [i \in Places |-> IF i \in M THEN blocks + 1 ELSE flag[i]]
      /\ blocks' = blocks + 1
  BY <1>1, MembersAre
<1>7. /\ jstack' \in Seq(Places) /\ Len(jstack') = L - 1 /\ DOMAIN jstack' = 1..(L - 1)
      /\ \A n \in 1..(L - 1) : jstack'[n] = jstack[n]
      /\ Range(jstack) = Range(jstack') \cup {Top} /\ (jstack' = <<>> => L = 1)
  BY <1>1, <1>2, TopIs
<1>8. /\ time \in [Places -> Nat] /\ low \in [Places -> Nat] /\ flag \in [Places -> Nat] /\ blocks \in Nat
  BY <1>2 DEF BtfTypeOK
<1>9. \A j \in Places : time[j] \in Nat /\ low[j] \in Nat /\ flag[j] \in Nat /\ flag[j] <= blocks
  BY <1>2, <1>8 DEF TimesInv
<1>10. Top \in M /\ \A i \in M : i \in Pool /\ i \in Places /\ time[Top] <= time[i]
  BY <1>3, <1>5, <1>9
<1>11. \A i \in M : \A k \in Edges[i] : time[k] # 0 /\ (k \in Pool => k \in M)
  BY <1>1, <1>10, MembersAreClosed
<1>12. \A T \in SUBSET Places :
         T # {} /\ T \subseteq M /\ (\A i \in T : \A k \in Edges[i] : k \in M => k \in T) => M \subseteq T
  <2> SUFFICES ASSUME NEW T \in SUBSET Places, T # {}, T \subseteq M,
                      \A i \in T : \A k \in Edges[i] : k \in M => k \in T
               PROVE  M \subseteq T
    OBVIOUS
  <2>1. \A i \in T : i \in Pool /\ time[Top] <= time[i]
    BY <1>10
  <2>2. \A i \in T : \A k \in Edges[i] : k \in Pool /\ time[Top] <= time[k] => k \in T
    OBVIOUS
  <2>3. \A i \in Pool : time[Top] <= time[i] => i \in T
    BY <1>1, <2>1, <2>2, MembersAreOne
  <2> QED
    BY <1>10, <2>3
<1>13. \A i \in Pool \ M : i \in Places /\ time[i] < time[Top]
  BY <1>3, <1>5, <1>9
<1> HIDE DEF M
<1>14. /\ flag' \in [Places -> Nat] /\ \A i \in M : flag'[i] = blocks + 1
       /\ \A i \in Places : i \notin M => flag'[i] = flag[i]
  <2>1. blocks + 1 \in Nat
    BY <1>8
  <2> QED
    BY <1>6, <1>8, <1>9, <1>10, <2>1
<1>15. Pool' = Pool \ M
  <2>1. \A i \in Places : i \in Pool' <=> time[i] # 0 /\ flag'[i] = 0
    BY <1>4 DEF Pool, Unassigned
  <2>2. \A i \in Places : i \in Pool' <=> i \in Pool /\ i \notin M
    BY <1>3, <1>8, <1>14, <2>1
  <2>3. Pool' \subseteq Places
    BY DEF Pool
  <2> QED
    BY <1>3, <2>2, <2>3
<1>16. low' = low
  <2>1. CASE L = 1
    BY <1>1, <2>1
  <2>2. CASE L # 1
    <3>1. L - 1 \in 1..L /\ L - 1 < L
      BY <1>5, <2>2
    <3>2. jstack[L - 1] \in Pool /\ time[jstack[L - 1]] < time[Top]
      BY <1>5, <3>1
    <3>3. jstack[L - 1] \in Places /\ low[jstack[L - 1]] <= time[jstack[L - 1]]
      BY <1>2, <1>3, <3>2 DEF TimesInv
    <3>4. low[jstack[L - 1]] < low[Top]
      BY <1>5, <1>9, <3>2, <3>3
    <3>5. Lesser(low[jstack[L - 1]], low[Top]) = low[jstack[L - 1]]
      BY <3>4 DEF Lesser
    <3>6. low' = [low EXCEPT ![jstack[L - 1]] = low[jstack[L - 1]]]
      BY <1>1, <2>2, <3>5
    <3> QED
      BY <1>8, <3>3, <3>6
  <2> QED
    BY <2>1, <2>2
<1> HIDE DEF L
<1>17. \A n \in 1..(L - 1) : /\ n \in 1..L /\ n < L /\ jstack'[n] = jstack[n] /\ n \in DOMAIN jstack
                             /\ jstack[n] \in Pool \ M
  <2> TAKE n \in 1..(L - 1)
  <2>1. n \in 1..L /\ n < L
    BY <1>5
  <2>2. jstack[n] \in Pool /\ time[jstack[n]] < time[Top] /\ jstack[n] \in Places
    BY <1>3, <1>5, <2>1
  <2>3. jstack[n] \notin M
    BY <1>5, <1>9, <1>10, <2>2
  <2> QED
    BY <1>5, <1>7, <2>1, <2>2, <2>3
<1>18. BtfTypeOK'
  <2>1. blocks + 1 \in Nat
    BY <1>8
  <2> QED
    BY <1>1, <1>2, <1>4, <1>6, <1>7, <1>14, <1>16, <2>1 DEF BtfTypeOK, matching
<1>19. TimesInv'
  <2>1. \A i \in Places : flag'[i] <= blocks'
    <3> TAKE i \in Places
    <3>1. flag'[i] = blocks + 1 \/ flag'[i] = flag[i]
      BY <1>14
    <3> QED
      BY <1>6, <1>8, <1>9, <3>1
  <2>2. \A i \in Places : time[i] = 0 => flag'[i] = 0
    <3> SUFFICES ASSUME NEW i \in Places, time[i] = 0 PROVE flag'[i] = 0
      OBVIOUS
    <3>1. i \notin M
      BY <1>3, <1>10
    <3> QED
      BY <1>2, <1>14, <3>1 DEF TimesInv
  <2> QED
    BY <1>2, <1>4, <1>15, <1>16, <2>1, <2>2 DEF TimesInv
<1>20. CallsInv'
  <2>1. \A n \in 1..(L - 1) : jstack'[n] \in Pool'
    BY <1>15, <1>17
  <2>2. \A m, n \in 1..(L - 1) : m < n => time[jstack'[m]] < time[jstack'[n]]
    BY <1>2, <1>17 DEF CallsInv
  <2>3. \A n \in 1..(L - 1) : n > 1 => jstack'[n] \in Edges[jstack'[n - 1]]
    <3> SUFFICES ASSUME NEW n \in 1..(L - 1), n > 1 PROVE jstack'[n] \in Edges[jstack'[n - 1]]
      OBVIOUS
    <3>1. n - 1 \in 1..(L - 1)
      BY <1>5
    <3>2. jstack[n] \in Edges[jstack[n - 1]]
      BY <1>2, <1>17 DEF CallsInv
    <3> QED
      BY <1>17, <3>1, <3>2
  <2>4. \A i \in Pool' : jstack' # <<>> /\ time[jstack'[1]] <= time[i]
    <3> TAKE i \in Pool'
    <3>1. i \in Pool /\ i \in Places /\ time[i] < time[Top] /\ time[jstack[1]] <= time[i]
      BY <1>5, <1>13, <1>15
    <3>2. L # 1
      BY <1>5, <1>9, <3>1
    <3>3. 1 \in 1..(L - 1)
      BY <1>5, <3>2
    <3> QED
      BY <1>7, <1>17, <3>1, <3>2, <3>3
  <2> QED
    BY <1>4, <1>6, <1>7, <1>15, <2>1, <2>2, <2>3, <2>4 DEF CallsInv
<1>21. EdgesInv'
  <2> SUFFICES ASSUME NEW i \in Places, time[i] # 0
               PROVE  /\ pstack[i] \subseteq Edges[i]
                      /\ i \in Range(jstack') \/ pstack[i] = {}
                      /\ \A k \in Edges[i] \ pstack[i] :
                           time[k] # 0 /\ (i \in Pool' /\ k \in Pool' => low[i] <= time[k])
    BY <1>4, <1>16 DEF EdgesInv
  <2>1. /\ pstack[i] \subseteq Edges[i] /\ (i \in Range(jstack) \/ pstack[i] = {})
        /\ \A k \in Edges[i] \ pstack[i] :
             time[k] # 0 /\ (i \in Pool /\ k \in Pool => low[i] <= time[k])
    BY <1>2 DEF EdgesInv
  <2> QED
    BY <1>1, <1>7, <1>15, <2>1
<1>22. ClosedInv'
  <2> SUFFICES ASSUME NEW i \in Places, flag'[i] # 0, NEW k \in Edges[i]
               PROVE  flag'[k] # 0 /\ flag'[k] <= flag'[i]
    BY <1>4 DEF ClosedInv
  <2>1. k \in Places
    BY <1>3
  <2>2. CASE i \in M
    <3>1. CASE k \in M
      BY <1>8, <1>14, <2>2, <3>1
    <3>2. CASE k \notin M
      <4>1. time[k] # 0 /\ k \notin Pool
        BY <1>11, <2>2, <3>2
      <4>2. flag[k] # 0
        BY <1>3, <2>1, <4>1
      <4> QED
        BY <1>8, <1>9, <1>14, <2>1, <2>2, <3>2, <4>2
    <3> QED
      BY <3>1, <3>2
  <2>3. CASE i \notin M
    <3>1. flag'[i] = flag[i]
      BY <1>14, <2>3
    <3>2. flag[k] # 0 /\ flag[k] <= flag[i]
      BY <1>2, <3>1 DEF ClosedInv
    <3>3. k \notin M
      BY <1>3, <1>10, <3>2
    <3> QED
      BY <1>14, <2>1, <3>1, <3>2, <3>3
  <2> QED
    BY <2>2, <2>3
<1>23. LowInv'
  <2>1. \A i \in Pool' : i \in Range(jstack') \/ low[i] < time[i]
    <3> TAKE i \in Pool'
    <3>1. i \in Pool /\ i # Top
      BY <1>10, <1>15
    <3> QED
      BY <1>2, <1>7, <3>1 DEF LowInv
  <2>2. ASSUME NEW n \in 1..(L - 1), NEW i \in Pool', Beneath(n, i)'
        PROVE  low[jstack'[n]] <= low[i]
    <3>1. time[jstack'[n]] < time[i] /\ (n < L - 1 => time[i] < time[jstack'[n + 1]])
      BY <1>4, <1>7, <2>2 DEF Beneath
    <3>2. i \in Pool /\ time[i] < time[Top]
      BY <1>13, <1>15
    <3>3. Beneath(n, i)
      <4>1. n < L - 1 => time[i] < time[jstack[n + 1]]
        <5> SUFFICES ASSUME n < L - 1 PROVE time[i] < time[jstack[n + 1]]
          OBVIOUS
        <5>1. n + 1 \in 1..(L - 1)
          BY <1>5
        <5> QED
          BY <1>17, <3>1, <5>1
      <4>2. n < L => time[i] < time[jstack[n + 1]]
        <5>1. n < L - 1 \/ n + 1 = L
          BY <1>5
        <5> QED
          BY <1>5, <3>2, <4>1, <5>1
      <4> QED
        BY <1>17, <3>1, <4>2 DEF Beneath, L
    <3> QED
      BY <1>2, <1>17, <3>2, <3>3 DEF LowInv
  <2>3. ASSUME NEW T \in SUBSET Places, Open(T)', NEW i \in T
        PROVE  \E w \in T : time[w] = low[i]
    <3>1. T \subseteq Pool \ M /\ \A t \in T : Edges[t] \cap (Pool \ M) \subseteq T
      BY <1>4, <1>15, <2>3 DEF Open
    <3>2. Open(T \cup M)
      <4>1. T \cup M \subseteq Pool
        BY <1>10, <3>1
      <4>2. \A t \in T \cup M : Edges[t] \cap Pool \subseteq T \cup M
        BY <1>11, <3>1
      <4> QED
        BY <4>1, <4>2 DEF Open
    <3>3. (T \cup M) \in SUBSET Places
      BY <1>10
    <3>4. PICK w \in T \cup M : time[w] = low[i]
      BY <1>2, <3>2, <3>3 DEF LowInv
    <3>5. i \in Pool /\ i \in Places /\ time[i] < time[Top] /\ low[i] <= time[i]
      BY <1>2, <1>13, <3>1 DEF TimesInv
    <3>6. w \notin M
      <4> SUFFICES ASSUME w \in M PROVE FALSE
        OBVIOUS
      <4>1. w \in Places /\ time[Top] <= time[w]
        BY <1>10
      <4> QED
        BY <1>5, <1>9, <3>4, <3>5, <4>1
    <3> QED
      BY <3>4, <3>6
  <2> QED
    BY <1>4, <1>7, <1>16, <2>1, <2>2, <2>3 DEF LowInv
<1>24. ParentInv'
  <2> SUFFICES ASSUME NEW n \in 1..(L - 1), NEW i \in Pool', time[jstack'[n]] < time[i]
               PROVE  \E k \in Pool' : /\ i \in Edges[k]
                                        /\ time[jstack'[n]] <= time[k] /\ time[k] < time[i]
    BY <1>4, <1>7 DEF ParentInv
  <2>1. PICK k \in Pool : i \in Edges[k] /\ time[jstack[n]] <= time[k] /\ time[k] < time[i]
    BY <1>2, <1>15, <1>17 DEF ParentInv
  <2>2. k \notin M
    <3> SUFFICES ASSUME k \in M PROVE FALSE
      OBVIOUS
    <3>1. k \in Places /\ time[Top] <= time[k]
      BY <1>10
    <3>2. i \in Places /\ time[i] < time[Top]
      BY <1>13, <1>15
    <3> QED
      BY <1>5, <1>9, <2>1, <3>1, <3>2
  <2> QED
    BY <1>15, <1>17, <2>1, <2>2
<1>25. BlocksInv'
  <2> SUFFICES ASSUME NEW b \in 1..(blocks + 1), NEW T \in SUBSET Places, T # {},
                      \A i \in T : flag'[i] = b,
                      \A i \in T : \A k \in Edges[i] : flag'[k] = b => k \in T,
                      NEW i \in Places, flag'[i] = b
               PROVE  i \in T
    BY <1>4, <1>6 DEF BlocksInv
  <2>1. \A k \in Places : flag'[k] = blocks + 1 <=> k \in M
    <3> TAKE k \in Places
    <3>1. flag[k] # blocks + 1
      BY <1>8, <1>9
    <3> QED
      BY <1>14, <3>1
  <2>2. CASE b = blocks + 1
    <3>1. T \subseteq M
      BY <2>1, <2>2
    <3>2. \A t \in T : \A k \in Edges[t] : k \in M => k \in T
      BY <1>14, <2>2
    <3>3. M \subseteq T
      BY <1>12, <3>1, <3>2
    <3> QED
      BY <2>1, <2>2, <3>3
  <2>3. CASE b # blocks + 1
    <3>1. b \in 1..blocks
      BY <1>8, <2>3
    <3>2. \A k \in Places : flag'[k] = b <=> flag[k] = b
      <4> TAKE k \in Places
      <4>1. CASE k \in M
        <5>1. flag[k] = 0
          BY <1>3, <1>10, <4>1
        <5>2. b # 0
          BY <1>8
        <5> QED
          BY <1>14, <2>3, <4>1, <5>1, <5>2
      <4>2. CASE k \notin M
        BY <1>14, <4>2
      <4> QED
        BY <4>1, <4>2
    <3>3. \A t \in T : flag[t] = b
      BY <3>2
    <3>4. \A t \in T : \A k \in Edges[t] : flag[k] = b => k \in T
      BY <1>3, <3>2
    <3> QED
      BY <1>2, <3>1, <3>2, <3>3, <3>4 DEF BlocksInv
  <2> QED
    BY <2>2, <2>3
<1>26. OrderInv'
  BY <1>2, <1>4 DEF OrderInv
<1> QED
  BY <1>1, <1>18, <1>19, <1>20, <1>21, <1>22, <1>23, <1>24, <1>25, <1>26, SearchStep

\* Another node is left: it cannot be the root, and hands down what it reaches.
LEMMA LeavingKeepsInv ==
  ASSUME BtfInv, LeaveNode, low[Top] # time[Top]
  PROVE  BtfInv'
<1> DEFINE L == Len(jstack)
           p == jstack[L - 1]
<1>1. /\ Searching /\ jstack # <<>> /\ pstack[Top] = {} /\ jstack' = Front(jstack)
      /\ cstack' = cstack /\ flag' = flag /\ blocks' = blocks
      /\ low' = IF L = 1 THEN low ELSE [low EXCEPT ![p] = Lesser(@, low[Top])]
      /\ UNCHANGED <<sparsity, matching, pstack, time, timestamp, order>>
  BY DEF LeaveNode
<1>2. /\ BtfTypeOK /\ TimesInv /\ CallsInv /\ EdgesInv /\ ClosedInv
      /\ LowInv /\ ParentInv /\ BlocksInv /\ order = Unordered
  BY <1>1, InTheSearch
<1>3. /\ Pool \subseteq Places /\ \A j \in Places : j \in Pool <=> time[j] # 0 /\ flag[j] = 0
      /\ \A j \in Places : Edges[j] \subseteq Places
  BY <1>1, InTheSearch
<1>4. /\ pstack' = pstack /\ time' = time /\ timestamp' = timestamp /\ order' = order
      /\ sparsity' = sparsity /\ Edges' = Edges /\ Pool' = Pool
  BY <1>1, SameEdges DEF Pool, Unassigned
<1>5. /\ Top \in Pool /\ Top \in Places /\ L \in Nat \ {0} /\ DOMAIN jstack = 1..L
      /\ jstack[L] = Top /\ \A n \in 1..L : jstack[n] \in Pool
      /\ \A n \in 1..L : n < L => time[jstack[n]] < time[Top]
      /\ \A i \in Pool : time[jstack[1]] <= time[i]
  BY <1>1, TopOfSearch
<1>6. /\ jstack' \in Seq(Places) /\ Len(jstack') = L - 1 /\ DOMAIN jstack' = 1..(L - 1)
      /\ \A n \in 1..(L - 1) : jstack'[n] = jstack[n]
      /\ Range(jstack) = Range(jstack') \cup {Top} /\ (jstack' = <<>> => L = 1)
  BY <1>1, <1>2, TopIs
<1>7. /\ time \in [Places -> Nat] /\ low \in [Places -> Nat] /\ flag \in [Places -> Nat] /\ blocks \in Nat
  BY <1>2 DEF BtfTypeOK
<1>8. \A j \in Places : time[j] \in Nat /\ low[j] \in Nat
  BY <1>7
<1>9. low[Top] < time[Top]
  BY <1>2, <1>1, <1>5, <1>8 DEF TimesInv
<1>10. L # 1
  <2>1. Open(Pool)
    BY DEF Open
  <2>2. PICK w \in Pool : time[w] = low[Top]
    BY <1>2, <1>3, <1>5, <2>1 DEF LowInv
  <2>3. time[jstack[1]] <= time[w]
    BY <1>5
  <2> QED
    BY <1>3, <1>5, <1>8, <1>9, <2>2, <2>3
<1>11. L - 1 \in 1..(L - 1) /\ L - 1 \in 1..L /\ L - 1 < L /\ L > 1
  BY <1>5, <1>10
<1>12. p \in Pool /\ p \in Places /\ time[p] < time[Top] /\ p # Top
  BY <1>3, <1>5, <1>8, <1>11
<1>13. Top \in Edges[p]
  BY <1>2, <1>5, <1>11 DEF CallsInv
<1>14. /\ low' \in [Places -> Nat] /\ \A i \in Places : i # p => low'[i] = low[i]
       /\ low'[p] = low[p] \/ low'[p] = low[Top]
       /\ low'[p] <= low[p] /\ low'[p] <= low[Top]
  <2>1. low' = [low EXCEPT ![p] = Lesser(low[p], low[Top])]
    BY <1>1, <1>10
  <2>2. /\ Lesser(low[p], low[Top]) \in Nat
        /\ Lesser(low[p], low[Top]) = low[p] \/ Lesser(low[p], low[Top]) = low[Top]
        /\ Lesser(low[p], low[Top]) <= low[p] /\ Lesser(low[p], low[Top]) <= low[Top]
    BY <1>5, <1>8, <1>12 DEF Lesser
  <2> QED
    BY <1>7, <1>12, <2>1, <2>2
<1>15. \A i \in Places : low'[i] \in Nat /\ low'[i] <= low[i]
  BY <1>8, <1>14
<1> HIDE DEF L, p
<1>16. \A n \in 1..(L - 1) : /\ n \in 1..L /\ n < L /\ jstack'[n] = jstack[n] /\ n \in DOMAIN jstack
                             /\ jstack[n] \in Pool
  <2> TAKE n \in 1..(L - 1)
  <2>1. n \in 1..L /\ n < L
    BY <1>5
  <2> QED
    BY <1>5, <1>6, <2>1
<1>17. BtfTypeOK'
  BY <1>1, <1>2, <1>4, <1>6, <1>14 DEF BtfTypeOK, matching
<1>18. TimesInv'
  <2>1. \A i \in Pool : low'[i] <= time[i]
    <3> TAKE i \in Pool
    <3>1. i \in Places /\ low[i] <= time[i] /\ low'[i] <= low[i]
      BY <1>2, <1>3, <1>15 DEF TimesInv
    <3> QED
      BY <1>8, <1>15, <3>1
  <2> QED
    BY <1>1, <1>2, <1>4, <2>1 DEF TimesInv
<1>19. CallsInv'
  <2>1. \A n \in 1..(L - 1) : jstack'[n] \in Pool
    BY <1>16
  <2>2. \A m, n \in 1..(L - 1) : m < n => time[jstack'[m]] < time[jstack'[n]]
    BY <1>2, <1>16 DEF CallsInv
  <2>3. \A n \in 1..(L - 1) : n > 1 => jstack'[n] \in Edges[jstack'[n - 1]]
    <3> SUFFICES ASSUME NEW n \in 1..(L - 1), n > 1 PROVE jstack'[n] \in Edges[jstack'[n - 1]]
      OBVIOUS
    <3>1. n - 1 \in 1..(L - 1)
      BY <1>5
    <3>2. jstack[n] \in Edges[jstack[n - 1]]
      BY <1>2, <1>16 DEF CallsInv
    <3> QED
      BY <1>16, <3>1, <3>2
  <2>4. \A i \in Pool : jstack' # <<>> /\ time[jstack'[1]] <= time[i]
    <3>1. 1 \in 1..(L - 1)
      BY <1>5, <1>11
    <3> QED
      BY <1>5, <1>6, <1>10, <1>16, <3>1
  <2> QED
    BY <1>1, <1>2, <1>4, <1>6, <2>1, <2>2, <2>3, <2>4 DEF CallsInv
<1>20. EdgesInv'
  <2> SUFFICES ASSUME NEW i \in Places, time[i] # 0
               PROVE  /\ pstack[i] \subseteq Edges[i]
                      /\ i \in Range(jstack') \/ pstack[i] = {}
                      /\ \A k \in Edges[i] \ pstack[i] :
                           time[k] # 0 /\ (i \in Pool /\ k \in Pool => low'[i] <= time[k])
    BY <1>4 DEF EdgesInv
  <2>1. /\ pstack[i] \subseteq Edges[i] /\ (i \in Range(jstack) \/ pstack[i] = {})
        /\ \A k \in Edges[i] \ pstack[i] :
             time[k] # 0 /\ (i \in Pool /\ k \in Pool => low[i] <= time[k])
    BY <1>2 DEF EdgesInv
  <2>2. i \in Range(jstack') \/ pstack[i] = {}
    BY <1>1, <1>6, <2>1
  <2>3. ASSUME NEW k \in Edges[i] \ pstack[i]
        PROVE  time[k] # 0 /\ (i \in Pool /\ k \in Pool => low'[i] <= time[k])
    <3>1. k \in Places
      BY <1>3
    <3> QED
      BY <1>8, <1>15, <2>1, <3>1
  <2> QED
    BY <2>1, <2>2, <2>3
<1>21. ClosedInv' /\ BlocksInv'
  BY <1>1, <1>2, <1>4 DEF ClosedInv, BlocksInv
<1>22. LowInv'
  <2>1. \A i \in Pool : i \in Range(jstack') \/ low'[i] < time[i]
    <3> TAKE i \in Pool
    <3>1. i \in Places /\ (i \in Range(jstack) \/ low[i] < time[i])
      BY <1>2, <1>3 DEF LowInv
    <3> QED
      BY <1>6, <1>8, <1>9, <1>15, <3>1
  <2>2. ASSUME NEW n \in 1..(L - 1), NEW i \in Pool, Beneath(n, i)'
        PROVE  low'[jstack'[n]] <= low'[i]
    <3>1. time[jstack[n]] < time[i] /\ (n < L - 1 => time[i] < time[jstack'[n + 1]])
      BY <1>4, <1>6, <2>2 DEF Beneath
    <3>2. i \in Places /\ jstack[n] \in Places /\ jstack[n] \in Pool
      BY <1>3, <1>16
    <3>3. CASE n < L - 1
      <4>1. n + 1 \in 1..(L - 1) /\ n + 1 < L /\ n < L
        BY <1>5, <3>3
      <4>2. time[i] < time[jstack[n + 1]]
        BY <1>16, <3>1, <3>3, <4>1
      <4>3. low[jstack[n]] <= low[i]
        BY <1>2, <1>16, <3>1, <4>2 DEF LowInv, Beneath
      <4>4. n + 1 = L - 1 \/ time[jstack[n + 1]] < time[p]
        <5> SUFFICES ASSUME n + 1 # L - 1 PROVE time[jstack[n + 1]] < time[p]
          OBVIOUS
        <5>1. n + 1 < L - 1
          BY <1>5, <4>1
        <5> QED
          BY <1>2, <1>11, <1>16, <4>1, <5>1 DEF CallsInv, p
      <4>5. jstack[n + 1] \in Places
        BY <1>3, <1>16, <4>1
      <4>6. time[i] < time[p]
        BY <1>8, <1>12, <3>2, <4>2, <4>4, <4>5 DEF p
      <4>7. i # p /\ jstack[n] # p
        BY <1>8, <1>12, <3>1, <3>2, <4>6
      <4> QED
        BY <1>14, <1>16, <3>2, <4>3, <4>7
    <3>4. CASE ~(n < L - 1)
      <4>1. n = L - 1 /\ jstack[n] = p
        BY <1>5, <3>4 DEF p
      <4>2. i # p /\ low'[i] = low[i]
        BY <1>8, <1>14, <3>1, <3>2, <4>1
      <4>3. low[p] <= low[i] \/ low[Top] <= low[i]
        <5>1. CASE time[i] < time[Top]
          <6>1. Beneath(n, i)
            BY <1>5, <3>1, <4>1, <5>1 DEF Beneath, L
          <6> QED
            BY <1>2, <1>16, <4>1, <6>1 DEF LowInv
        <5>2. CASE time[i] = time[Top]
          <6>1. i = Top
            BY <1>2, <1>3, <1>5, <3>2, <5>2 DEF TimesInv
          <6> QED
            BY <1>8, <3>2, <6>1
        <5>3. CASE time[Top] < time[i]
          <6>1. Beneath(L, i) /\ L \in DOMAIN jstack
            BY <1>5, <5>3 DEF Beneath, L
          <6> QED
            BY <1>2, <1>5, <6>1 DEF LowInv
        <5> QED
          BY <1>5, <1>8, <3>2, <5>1, <5>2, <5>3
      <4> QED
        BY <1>5, <1>8, <1>12, <1>14, <1>15, <1>16, <3>2, <4>1, <4>2, <4>3
    <3> QED
      BY <3>3, <3>4
  <2>3. ASSUME NEW T \in SUBSET Places, Open(T)', NEW i \in T
        PROVE  \E w \in T : time[w] = low'[i]
    <3>1. Open(T) /\ T \subseteq Pool /\ \A t \in T : Edges[t] \cap Pool \subseteq T
      BY <1>4, <2>3 DEF Open
    <3>2. \A t \in T : \E w \in T : time[w] = low[t]
      BY <1>2, <3>1 DEF LowInv
    <3>3. CASE low'[i] = low[i]
      BY <3>2, <3>3
    <3>4. CASE low'[i] # low[i]
      <4>1. i = p /\ low'[i] = low[Top]
        BY <1>14, <3>4
      <4>2. Top \in T
        BY <1>5, <1>13, <3>1, <4>1
      <4> QED
        BY <3>2, <4>1, <4>2
    <3> QED
      BY <3>3, <3>4
  <2> QED
    BY <1>4, <1>6, <2>1, <2>2, <2>3 DEF LowInv
<1>23. ParentInv'
  <2> SUFFICES ASSUME NEW n \in 1..(L - 1), NEW i \in Pool, time[jstack'[n]] < time[i]
               PROVE  \E k \in Pool : /\ i \in Edges[k]
                                       /\ time[jstack'[n]] <= time[k] /\ time[k] < time[i]
    BY <1>4, <1>6 DEF ParentInv
  <2> QED
    BY <1>2, <1>16 DEF ParentInv
<1>24. OrderInv'
  BY <1>2, <1>4 DEF OrderInv
<1> QED
  BY <1>1, <1>17, <1>18, <1>19, <1>20, <1>21, <1>22, <1>23, <1>24, SearchStep

LEMMA LeaveNodeKeepsInv == ASSUME BtfInv, LeaveNode PROVE BtfInv'
  BY ClosingKeepsInv, LeavingKeepsInv

LEMMA PermuteKeepsInv == ASSUME BtfInv, Permute PROVE BtfInv'
<1> DEFINE p == [k \in Places |-> CHOOSE j \in Places : Place(j) = k]
<1>1. /\ Searching /\ jstack = <<>> /\ Unreached = {} /\ UNCHANGED <<sparsity, matching>>
      /\ order' = [p |-> p, q |-> [k \in Places |-> match[p[k]]],
                   block |-> [k \in Places |-> flag[p[k]]]]
  BY Zenon DEF Permute
<1>2. /\ jstack' = jstack /\ pstack' = pstack /\ time' = time /\ low' = low /\ flag' = flag
      /\ cstack' = cstack /\ blocks' = blocks /\ timestamp' = timestamp
      /\ sparsity' = sparsity /\ Edges' = Edges /\ match' = match /\ column' = column
      /\ cheap' = cheap /\ entered' = entered /\ istack' = istack /\ flipped' = flipped
  BY <1>1, SameEdges DEF Permute, components, matching
<1>3. /\ BtfTypeOK /\ TimesInv /\ CallsInv /\ EdgesInv /\ ClosedInv
      /\ LowInv /\ ParentInv /\ BlocksInv /\ MatchingDone
  BY <1>1, InTheSearch
<1>4. Pool' = Pool
  BY <1>2 DEF Pool, Unassigned
<1>5. BtfTypeOK'
  BY <1>2, <1>3 DEF BtfTypeOK
<1>6. TimesInv' /\ CallsInv' /\ EdgesInv' /\ ClosedInv' /\ BlocksInv' /\ ParentInv'
  BY <1>2, <1>3, <1>4 DEF TimesInv, CallsInv, EdgesInv, ClosedInv, BlocksInv, ParentInv
<1>7. LowInv'
  BY <1>2, <1>3, <1>4 DEF LowInv, Open, Beneath
<1>8. OrderInv'
  <2>1. MatchingDone' /\ Unreached' = {}
    BY <1>1, <1>2, <1>3 DEF MatchingDone, Unmatched, Unreached, Unvisited
  <2>2. \A j : Place(j)' = Place(j)
    BY <1>2 DEF Place, Precedes
  <2>3. order'.p = p
    BY <1>1
  <2> HIDE DEF p
  <2>5. p = [k \in Places |-> CHOOSE j \in Places : Place(j)' = k]
    BY <2>2 DEF p
  <2>4. /\ order'.q = [k \in Places |-> match'[order'.p[k]]]
        /\ order'.block = [k \in Places |-> flag'[order'.p[k]]]
    BY <1>1, <1>2
  <2> QED
    BY <1>1, <1>2, <2>1, <2>3, <2>4, <2>5 DEF OrderInv
<1> QED
  BY <1>1, <1>5, <1>6, <1>7, <1>8, SearchStep

LEMMA BtfInvUnchanged == ASSUME BtfInv, UNCHANGED btfvars PROVE BtfInv'
<1>1. /\ jstack' = jstack /\ pstack' = pstack /\ time' = time /\ low' = low /\ flag' = flag
      /\ cstack' = cstack /\ blocks' = blocks /\ timestamp' = timestamp /\ order' = order
      /\ sparsity' = sparsity /\ match' = match /\ column' = column
      /\ cheap' = cheap /\ entered' = entered /\ istack' = istack /\ flipped' = flipped
  BY DEF btfvars, components, matching
<1>2. Pool' = Pool /\ Edges' = Edges /\ (MatchingDone' <=> MatchingDone)
  BY <1>1 DEF Pool, Unassigned, Edges, Targets, MatchingDone, Unmatched
<1>3. BtfTypeOK' /\ PairsInv' /\ HallInv' /\ PathInv' /\ QuietInv'
  <2>1. BtfTypeOK'
    BY <1>1 DEF BtfInv, BtfTypeOK
  <2>2. PairsInv'
    BY <1>1 DEF BtfInv, PairsInv
  <2>3. HallInv'
    BY <1>1 DEF BtfInv, HallInv, Cramped, Paired
  <2>4. PathInv'
    BY <1>1 DEF BtfInv, PathInv
  <2>5. QuietInv'
    BY <1>1, <1>2 DEF BtfInv, QuietInv
  <2> QED
    BY <2>1, <2>2, <2>3, <2>4, <2>5
<1>4. ComponentsInv'
  BY <1>1, <1>2 DEF BtfInv, ComponentsInv, TimesInv, CallsInv, EdgesInv, ClosedInv, LowInv, Open,
    Beneath, ParentInv, BlocksInv
<1>5. OrderInv'
  BY <1>1, <1>2 DEF BtfInv, OrderInv, Unreached, Unvisited, Place, Precedes
<1> QED
  BY <1>3, <1>4, <1>5 DEF BtfInv

\* The invariant is inductive.
LEMMA BtfInvNext == BtfInv /\ [BtfNext]_btfvars => BtfInv'
<1> SUFFICES ASSUME BtfInv, [BtfNext]_btfvars PROVE BtfInv'
  OBVIOUS
<1>1. CASE BeginColumn
  BY <1>1, BeginColumnKeepsInv
<1>2. CASE TakeFreeRow
  BY <1>2, TakeFreeRowKeepsInv
<1>3. CASE EnterColumn
  BY <1>3, EnterColumnKeepsInv
<1>4. CASE FollowRow
  BY <1>4, FollowRowKeepsInv
<1>5. CASE LeaveColumn
  BY <1>5, LeaveColumnKeepsInv
<1>6. CASE CompleteMatching
  BY <1>6, CompleteMatchingKeepsInv
<1>7. CASE SearchRoot
  BY <1>7, SearchRootKeepsInv
<1>8. CASE ScanEdge
  BY <1>8, ScanEdgeKeepsInv
<1>9. CASE LeaveNode
  BY <1>9, LeaveNodeKeepsInv
<1>10. CASE Permute
  BY <1>10, PermuteKeepsInv
<1>11. CASE UNCHANGED btfvars
  BY <1>11, BtfInvUnchanged
<1> QED
  BY <1>1, <1>2, <1>3, <1>4, <1>5, <1>6, <1>7, <1>8, <1>9, <1>10, <1>11 DEF BtfNext

\* Sets in a one to one correspondence have as many elements.
LEMMA AsMany ==
  ASSUME NEW S, NEW T, NEW f, IsFiniteSet(S), \A a \in S : f[a] \in T,
         \A a, b \in S : f[a] = f[b] => a = b, \A t \in T : \E a \in S : f[a] = t
  PROVE  IsFiniteSet(T) /\ Cardinality(T) = Cardinality(S)
<1> DEFINE g == [a \in S |-> f[a]]
<1>1. g \in [S -> T] /\ \A a \in S : g[a] = f[a]
  OBVIOUS
<1> HIDE DEF g
<1>2. \A a, b \in S : g[a] = g[b] => a = b
  BY <1>1
<1>3. \A t \in T : \E a \in S : g[a] = t
  BY <1>1
<1>4. g \in Bijection(S, T)
  BY <1>1, <1>2, <1>3 DEF Bijection, Injection, IsInjective, Surjection
<1> QED
  BY <1>4, FS_Bijection DEF ExistsBijection

\* A one to one function of the places into the places reaches each.
LEMMA ReachesAll ==
  ASSUME Dimension \in Nat, NEW f, \A a \in Places : f[a] \in Places,
         \A a, b \in Places : f[a] = f[b] => a = b
  PROVE  \A t \in Places : \E a \in Places : f[a] = t
<1> DEFINE g == [a \in Places |-> f[a]]
<1>1. g \in [Places -> Places] /\ \A a \in Places : g[a] = f[a]
  OBVIOUS
<1> HIDE DEF g
<1>2. \A a, b \in Places : g[a] = g[b] => a = b
  BY <1>1
<1>3. g \in Injection(Places, Places)
  BY <1>1, <1>2 DEF Injection, IsInjective
<1>4. IsFiniteSet(Places)
  BY FS_Interval DEF Places
<1>5. g \in Surjection(Places, Places)
  BY <1>3, <1>4, FS_Injection
<1> QED
  BY <1>1, <1>5 DEF Surjection

\* The places given to the nodes: each place to one, and in the order of the blocks.
LEMMA PlacesAre ==
  ASSUME Dimension \in Nat, \A j \in Places : flag[j] \in Nat
  PROVE  /\ \A j \in Places : Place(j) \in Places
         /\ \A i, j \in Places : Place(i) = Place(j) => i = j
         /\ \A i, j \in Places : flag[i] < flag[j] => Place(i) < Place(j)
         /\ \A k \in Places : \E j \in Places : Place(j) = k
<1> DEFINE Ahead(j) == {i \in Places : Precedes(i, j)}
<1>1. IsFiniteSet(Places) /\ Cardinality(Places) = Dimension /\ Places \subseteq Nat
  <2>1. 1 \in Int /\ Dimension \in Int
    OBVIOUS
  <2> QED
    BY <2>1, FS_Interval DEF Places
<1>2. ASSUME NEW j \in Places
      PROVE  IsFiniteSet(Ahead(j)) /\ Cardinality(Ahead(j)) \in Nat /\ Place(j) \in Places
  <2>1. IsFiniteSet(Ahead(j)) /\ Cardinality(Ahead(j)) \in Nat
    BY <1>1, FS_Subset, FS_CardinalityType
  <2>2. Ahead(j) \subseteq Places \ {j}
    BY <1>1 DEF Precedes
  <2>3. IsFiniteSet(Places \ {j}) /\ Cardinality(Places \ {j}) = Dimension - 1
    BY <1>1, FS_RemoveElement
  <2>4. Cardinality(Ahead(j)) <= Dimension - 1
    BY <2>2, <2>3, FS_Subset
  <2>5. Place(j) = Cardinality(Ahead(j)) + 1
    BY DEF Place
  <2> HIDE DEF Ahead
  <2> QED
    BY <2>1, <2>4, <2>5 DEF Places
<1>3. ASSUME NEW i \in Places, NEW j \in Places, Precedes(i, j)
      PROVE  Place(i) < Place(j)
  <2>1. Ahead(i) \cup {i} \subseteq Ahead(j)
    <3>1. ASSUME NEW k \in Places, Precedes(k, i) PROVE Precedes(k, j)
      <4>1. flag[k] \in Nat /\ flag[i] \in Nat /\ flag[j] \in Nat /\ k \in Nat /\ i \in Nat /\ j \in Nat
        BY <1>1
      <4> QED
        BY <1>3, <3>1, <4>1 DEF Precedes
    <3> QED
      BY <1>3, <3>1
  <2>2. i \notin Ahead(i)
    BY <1>1 DEF Precedes
  <2>3. Cardinality(Ahead(i) \cup {i}) = Cardinality(Ahead(i)) + 1
    BY <1>2, <2>2, FS_AddElement
  <2>4. Cardinality(Ahead(i) \cup {i}) <= Cardinality(Ahead(j))
    BY <1>2, <2>1, FS_Subset
  <2>5. Place(i) = Cardinality(Ahead(i)) + 1 /\ Place(j) = Cardinality(Ahead(j)) + 1
    BY DEF Place
  <2>6. Cardinality(Ahead(i)) \in Nat /\ Cardinality(Ahead(j)) \in Nat
    BY <1>2
  <2> HIDE DEF Ahead
  <2> QED
    BY <2>3, <2>4, <2>5, <2>6
<1>4. \A i, j \in Places : i # j => Precedes(i, j) \/ Precedes(j, i)
  BY <1>1 DEF Precedes
<1>5. \A j \in Places : Place(j) \in Places /\ Place(j) \in Nat
  BY <1>1, <1>2
<1>6. \A i, j \in Places : Place(i) = Place(j) => i = j
  <2> SUFFICES ASSUME NEW i \in Places, NEW j \in Places, Place(i) = Place(j), i # j PROVE FALSE
    OBVIOUS
  <2>1. Place(i) < Place(j) \/ Place(j) < Place(i)
    BY <1>3, <1>4
  <2> QED
    BY <1>5, <2>1
<1>7. \A i, j \in Places : flag[i] < flag[j] => Place(i) < Place(j)
  BY <1>3 DEF Precedes
<1>8. \A k \in Places : \E j \in Places : Place(j) = k
  <2> DEFINE f == [j \in Places |-> Place(j)]
  <2>1. \A j \in Places : f[j] = Place(j)
    OBVIOUS
  <2> HIDE DEF f
  <2>2. /\ \A a \in Places : f[a] \in Places
        /\ \A a, b \in Places : f[a] = f[b] => a = b
    BY <1>5, <1>6, <2>1
  <2>3. \A t \in Places : \E a \in Places : f[a] = t
    BY <2>2, ReachesAll
  <2> QED
    BY <2>1, <2>3
<1> QED
  BY <1>5, <1>6, <1>7, <1>8

\* The matching is as large as can be: what Hall's condition says of the flipped rows.
LEMMA FlippedAreMissing ==
  ASSUME BtfInv, MatchingDone
  PROVE  \E S \in SUBSET Places :
           Cardinality(flipped) = Cardinality(S) - Cardinality(UNION {sparsity[j] : j \in S})
<1>1. BtfTypeOK /\ PairsInv /\ HallInv
  BY DEF BtfInv
<1>2. Dimension \in Nat /\ Places = 1..Dimension /\ column > Dimension /\ column \in Nat
  BY <1>1, BtfTypes DEF MatchingDone
<1>3. \A i \in Places : match[i] \in Places /\ match[i] # 0
  BY <1>1, BtfTypes DEF MatchingDone, Unmatched
<1>4. \A i, k \in Places : match[i] = match[k] => i = k
  BY <1>1, <1>3 DEF PairsInv
<1>5. \A j \in Places : \E i \in Places : match[i] = j
  BY <1>2, <1>3, <1>4, ReachesAll
<1>6. IsFiniteSet(Places) /\ flipped \subseteq Places /\ IsFiniteSet(flipped)
  <2>1. IsFiniteSet(1..Dimension)
    BY <1>2, FS_Interval
  <2>2. flipped \subseteq Places
    BY <1>1 DEF BtfTypeOK
  <2> QED
    BY <1>2, <2>1, <2>2, FS_Subset
<1>7. PICK D \in SUBSET Places : Cramped(D) /\ \A j \in Places : j < column /\ j \notin Paired => j \in D
  BY <1>1 DEF HallInv
<1>8. \A j \in Places : j \notin Paired => j \in D
  BY <1>2, <1>7
<1> DEFINE N == UNION {sparsity[j] : j \in D}
<1>9. Paired \subseteq Places
  BY <1>3 DEF Paired
<1>10. \A i \in N : i \in Places /\ i \notin flipped /\ match[i] \in D /\ match[i] \in Paired
  <2> TAKE i \in N
  <2>1. PICK j \in D : i \in sparsity[j]
    OBVIOUS
  <2>2. i \in Places
    BY <1>1, <2>1, BtfTypes
  <2> QED
    BY <1>7, <2>1, <2>2 DEF Cramped, Paired
<1>11. \A j \in D \cap Paired : \E i \in N : match[i] = j
  <2> TAKE j \in D \cap Paired
  <2>1. PICK i \in Places \ flipped : match[i] = j
    BY DEF Paired
  <2>2. i \in sparsity[j]
    BY <1>1, <1>3, <2>1 DEF PairsInv
  <2> QED
    BY <2>1, <2>2
<1>12. \A i \in flipped : match[i] \in D \ Paired
  <2> SUFFICES ASSUME NEW i \in flipped PROVE match[i] \notin Paired
    BY <1>3, <1>6, <1>8
  <2> QED
    BY <1>4, <1>6 DEF Paired
<1>13. \A j \in D \ Paired : \E i \in flipped : match[i] = j
  <2> TAKE j \in D \ Paired
  <2>1. PICK i \in Places : match[i] = j
    BY <1>5
  <2> QED
    BY <2>1 DEF Paired
<1> HIDE DEF N
<1>14. IsFiniteSet(N) /\ IsFiniteSet(D)
  BY <1>6, <1>10, FS_Subset
<1>15. IsFiniteSet(D \cap Paired) /\ Cardinality(D \cap Paired) = Cardinality(N)
  <2>1. \A i \in N : match[i] \in D \cap Paired
    BY <1>10
  <2>2. \A i, k \in N : match[i] = match[k] => i = k
    BY <1>4, <1>10
  <2> QED
    BY <1>11, <1>14, <2>1, <2>2, AsMany
<1>16. Cardinality(D \ Paired) = Cardinality(flipped)
  <2>1. \A i, k \in flipped : match[i] = match[k] => i = k
    BY <1>4, <1>6
  <2> QED
    BY <1>6, <1>12, <1>13, <2>1, AsMany
<1>17. Cardinality(D \ Paired) = Cardinality(D) - Cardinality(D \cap Paired)
  BY <1>14, FS_Difference
<1>18. Cardinality(flipped) = Cardinality(D) - Cardinality(N)
  BY <1>15, <1>16, <1>17
<1> QED
  BY <1>18 DEF N

\* The invariant implies the form.
LEMMA FormFollows == ASSUME BtfInv PROVE BlockTriangularForm
<1> SUFFICES ASSUME order # Unordered PROVE BlockTriangularForm!2
  BY DEF BlockTriangularForm
<1> DEFINE p == order.p
<1>1. /\ BtfTypeOK /\ PairsInv /\ MatchingDone /\ jstack = <<>> /\ Unreached = {}
      /\ p = [k \in Places |-> CHOOSE j \in Places : Place(j) = k]
      /\ order.q = [k \in Places |-> match[p[k]]]
      /\ order.block = [k \in Places |-> flag[p[k]]]
      /\ TimesInv /\ CallsInv /\ ClosedInv /\ BlocksInv
  BY DEF BtfInv, OrderInv, ComponentsInv
<1>2. Dimension \in Nat /\ Places = 1..Dimension /\ Places \subseteq Nat /\ blocks \in Nat
  BY <1>1, BtfTypes DEF BtfTypeOK
<1>3. \A j \in Places : flag[j] \in Nat /\ flag[j] # 0 /\ flag[j] <= blocks /\ flag[j] \in 1..blocks
  <2> TAKE j \in Places
  <2>1. time[j] # 0 /\ j \notin Pool
    BY <1>1 DEF Unreached, Unvisited, CallsInv
  <2>2. flag[j] # 0
    BY <2>1 DEF Pool, Unassigned
  <2>3. flag[j] \in Nat /\ flag[j] <= blocks
    BY <1>1, BtfTypes DEF TimesInv
  <2> QED
    BY <1>2, <2>2, <2>3
<1>4. \A i \in Places : match[i] \in Places /\ match[i] # 0
  BY <1>1, BtfTypes DEF MatchingDone, Unmatched
<1>5. \A i, k \in Places : match[i] = match[k] => i = k
  BY <1>1, <1>4 DEF PairsInv
<1>6. /\ \A j \in Places : Place(j) \in Places
      /\ \A i, j \in Places : Place(i) = Place(j) => i = j
      /\ \A i, j \in Places : flag[i] < flag[j] => Place(i) < Place(j)
      /\ \A k \in Places : \E j \in Places : Place(j) = k
  BY <1>2, <1>3, PlacesAre
<1>7. /\ DOMAIN p = Places /\ \A k \in Places : p[k] \in Places /\ Place(p[k]) = k
  BY <1>1, <1>6
<1>8. \A j \in Places : p[Place(j)] = j
  BY <1>6, <1>7
<1>9. /\ DOMAIN order.q = Places /\ DOMAIN order.block = Places
      /\ \A k \in Places : order.q[k] = match[p[k]] /\ order.block[k] = flag[p[k]]
  BY <1>1
<1>10. \A r, c \in Places : IsEntry(r, c) <=> p[r] \in Edges[p[c]]
  BY <1>7, <1>9 DEF IsEntry, Edges, Targets
<1> HIDE DEF p
<1>11. Range(p) = Places /\ Range(order.q) = Places
  <2>1. Range(p) = Places
    BY <1>6, <1>7, <1>8 DEF Range
  <2>2. Range(order.q) \subseteq Places
    BY <1>4, <1>7, <1>9 DEF Range
  <2>3. \A j \in Places : j \in Range(order.q)
    <3> TAKE j \in Places
    <3>1. PICK i \in Places : match[i] = j
      BY <1>2, <1>4, <1>5, ReachesAll
    <3>2. Place(i) \in Places /\ order.q[Place(i)] = j
      BY <1>6, <1>8, <1>9, <3>1
    <3> QED
      BY <1>9, <3>2 DEF Range
  <2> QED
    BY <2>1, <2>2, <2>3
<1>12. \A k, l \in Places : k <= l => order.block[k] <= order.block[l]
  <2> SUFFICES ASSUME NEW k \in Places, NEW l \in Places, k <= l, flag[p[l]] < flag[p[k]] PROVE FALSE
    BY <1>3, <1>7, <1>9
  <2>1. l < k
    BY <1>6, <1>7
  <2> QED
    BY <1>2, <2>1
<1>13. \A r, c \in Places : IsEntry(r, c) => order.block[r] <= order.block[c]
  <2> TAKE r, c \in Places
  <2>1. p[r] \in Edges[p[c]] => flag[p[r]] <= flag[p[c]]
    BY <1>1, <1>3, <1>7 DEF ClosedInv
  <2> QED
    BY <1>9, <1>10, <2>1
<1>14. ASSUME NEW b \in Range(order.block), Reducible(InBlock(b)) PROVE FALSE
  <2>1. b \in 1..blocks
    BY <1>3, <1>7, <1>9 DEF Range
  <2>2. PICK T \in SUBSET InBlock(b) :
          T # {} /\ T # InBlock(b) /\ \A r \in InBlock(b) \ T, c \in T : ~IsEntry(r, c)
    BY <1>14 DEF Reducible
  <2>3. \A k : k \in InBlock(b) <=> k \in Places /\ flag[p[k]] = b
    BY <1>9 DEF InBlock
  <2> DEFINE U == {p[k] : k \in T}
  <2>4. U \subseteq Places /\ U # {} /\ \A i \in U : flag[i] = b
    BY <1>7, <2>2, <2>3
  <2>5. ASSUME NEW i \in U, NEW k \in Edges[i], flag[k] = b PROVE k \in U
    <3>1. PICK c \in T : i = p[c]
      OBVIOUS
    <3>2. i \in Places /\ k \in Places
      <4>1. \A j \in Places : Targets(j) \subseteq Places
        BY <1>1, <1>4, BtfTypes DEF Targets
      <4> QED
        BY <2>4, <4>1 DEF Edges
    <3>3. Place(k) \in InBlock(b) /\ p[Place(k)] = k
      BY <1>6, <1>8, <2>3, <2>5, <3>2
    <3>4. IsEntry(Place(k), c)
      BY <1>10, <2>2, <2>3, <3>1, <3>3
    <3>5. Place(k) \in T
      BY <2>2, <3>3, <3>4
    <3> QED
      BY <3>3, <3>5
  <2>6. \A i \in Places : flag[i] = b => i \in U
    <3> HIDE DEF U
    <3> QED
      BY <1>1, <2>1, <2>4, <2>5 DEF BlocksInv
  <2>7. PICK r \in InBlock(b) : r \notin T
    BY <2>2
  <2>8. p[r] \in U
    BY <1>7, <2>3, <2>6
  <2>9. PICK k \in T : p[r] = p[k]
    BY <2>8
  <2> QED
    BY <1>7, <2>2, <2>3, <2>7, <2>9
<1>15. \A k \in Places : IsEntry(k, k) <=> p[k] \notin flipped
  <2> TAKE k \in Places
  <2>1. Edges[p[k]] = sparsity[match[p[k]]]
    BY <1>7 DEF Edges, Targets
  <2> QED
    BY <1>1, <1>4, <1>7, <1>10, <2>1 DEF PairsInv
<1>16. \E S \in SUBSET Places :
         Cardinality(flipped) = Cardinality(S) - Cardinality(UNION {sparsity[j] : j \in S})
  BY <1>1, FlippedAreMissing
<1> QED
  BY <1>11, <1>12, <1>13, <1>14, <1>15, <1>16 DEF p

\* strongcomp and maxtrans, for every pattern of every dimension and whatever order
\* the entries are looked at in: btf_order ends with a permutation to block upper
\* triangular form, its blocks contiguous and none of them reducible, with as many
\* entries on the diagonal as any matching can have.
THEOREM TheFormIsFound == BtfSpec => []BlockTriangularForm
<1>1. BtfInit => BtfInv
  BY BtfInvInit
<1>2. BtfInv /\ [BtfNext]_btfvars => BtfInv'
  BY BtfInvNext
<1>3. BtfInv => BlockTriangularForm
  BY FormFollows
<1> QED
  BY <1>1, <1>2, <1>3, PTL DEF BtfSpec

=============================================================================
