--------------------------- MODULE TrainingProofs ---------------------------
(***************************************************************************)
(* For every number of leaves, schedule, buffer size and signalling: the   *)
(* trainers never run ahead of the schedule, nobody trains while the main  *)
(* thread drains and saves, the checkpoint is exact, and the buffers hold  *)
(* the latest samples.                                                     *)
(*                                                                         *)
(* The first invariant adds that the work a trainer has accepted is due,   *)
(* and that the forwarders rest once the main thread has left its loop;    *)
(* the second that the samples on their way are the next ones in order.    *)
(***************************************************************************)
EXTENDS TrainingProperties, SequenceTheorems, TLAPS

-----------------------------------------------------------------------------
(* The schedule.                                                           *)

LEMMA DivisionMonotonic ==
    ASSUME NEW a \in Int, NEW b \in Int, NEW d \in Nat \ {0}, a <= b
    PROVE  a \div d \in Int /\ a \div d <= b \div d
  BY Z3

LEMMA DivisionOfNext ==
    ASSUME NEW n \in Nat, NEW d \in Nat \ {0}
    PROVE  (n + 1) \div d = IF (n + 1) % d = 0 THEN n \div d + 1 ELSE n \div d
  BY Z3

\* The steps due are a number that grows with the samples.
LEMMA ScheduleGrows ==
    ASSUME NEW n \in Nat
    PROVE  Schedule(n) \in Nat /\ Schedule(n) <= Schedule(n + 1)
  <1> DEFINE past(m) == (m - LearningStarts) \div TrainEvery
  <1>1. LearningStarts \in Nat \ {0} /\ TrainEvery \in Nat \ {0}
    BY TrainingAssumption
  <1>2. 0 \div TrainEvery = 0
    BY <1>1, Z3
  <1>3. ASSUME NEW m \in Nat, m >= LearningStarts PROVE past(m) \in Nat
    <2>1. 0 \div TrainEvery <= past(m) /\ past(m) \in Int
      BY <1>1, <1>3, DivisionMonotonic
    <2> HIDE DEF past
    <2> QED BY <1>2, <2>1
  <1>4. n >= LearningStarts => past(n) <= past(n + 1)
    BY <1>1, DivisionMonotonic
  <1>5. /\ n < LearningStarts => Schedule(n) = 0
        /\ n >= LearningStarts => Schedule(n) = 1 + past(n)
        /\ n + 1 < LearningStarts => Schedule(n + 1) = 0
        /\ n + 1 >= LearningStarts => Schedule(n + 1) = 1 + past(n + 1)
    BY <1>1 DEF Schedule
  <1> HIDE DEF past
  <1> QED BY <1>1, <1>3, <1>4, <1>5

-----------------------------------------------------------------------------
(* The inductive invariant.                                                *)

FwdType ==
    /\ fwd \in [Leaves -> {"iterate", "events", "add", "store", "advance"}]
    /\ transitions \in [Leaves -> Nat] /\ sample \in [Leaves -> Nat]
    /\ upcoming \in [Leaves -> Seq([time : Nat, sample : Nat])]
    /\ total \in [Leaves -> Nat]
    /\ storage \in [Leaves -> Seq(Nat)]
    /\ nextIdx \in [Leaves -> 0..(Size - 1)]

TrainerType ==
    /\ trainer \in [Leaves -> {"wait", "sample", "update", "ended", "dead"}]
    /\ left \in [Leaves -> Nat]
    /\ batchFrom \in [Leaves -> Nat]
    /\ steps \in [Leaves -> Nat] /\ targets \in [Leaves -> Nat]

MainType ==
    /\ signaling \in Signalings /\ now \in Nat /\ episode \in 1..NumEpisodes
    /\ main \in {"poll", "join", "drain", "saved", "refused"}
    /\ stop \in BOOLEAN /\ saved \in [Leaves -> Nat]

LEMMA TypeParts == TrainTypeOK <=> FwdType /\ TrainerType /\ MainType
  BY DEF TrainTypeOK, FwdType, TrainerType, MainType

Training(l) == trainer[l] \in {"sample", "update"}

\* What a trainer has accepted is due.
WorkIsDue ==
    \A l \in Leaves : Training(l) =>
      left[l] > 0 /\ steps[l] + left[l] <= Schedule(total[l])

\* The main thread leaves its loop when the forwarders rest, drains when the
\* trainers have ended, and saves when nothing is pending.
Shutdown ==
    /\ main # "poll" => Idle /\ stop
    /\ main \in {"drain", "saved"} => AllJoined
    /\ main = "saved" => \A l \in Leaves : saved[l] = steps[l] /\ Pending(l) = 0

IInv == TrainTypeOK /\ NeverAhead /\ WorkIsDue /\ Shutdown

-----------------------------------------------------------------------------
(* The forwarder.                                                          *)

LEMMA EventIsTyped ==
    ASSUME FwdType, NEW l \in Leaves, upcoming[l] # <<>>
    PROVE  Head(upcoming[l]).sample \in Nat /\ Tail(upcoming[l]) \in Seq([time : Nat, sample : Nat])
  <1>1. upcoming[l] \in Seq([time : Nat, sample : Nat])
    BY DEF FwdType
  <1>2. /\ Head(upcoming[l]) \in [time : Nat, sample : Nat]
        /\ Tail(upcoming[l]) \in Seq([time : Nat, sample : Nat])
    BY <1>1, HeadTailProperties
  <1> QED BY <1>2

LEMMA ForwarderTypes ==
    ASSUME FwdType, MainType, NEW l \in Leaves, ForwarderStep(l)
    PROVE  FwdType'
  <1> USE DEF FwdType
  <1>1. CASE GetUpcomingEvent(l)
    <2>1. /\ sample' = [sample EXCEPT ![l] = Head(upcoming[l]).sample]
          /\ upcoming' = [upcoming EXCEPT ![l] = Tail(upcoming[l])]
          /\ fwd' = [fwd EXCEPT ![l] = "add"]
          /\ UNCHANGED <<transitions, total, storage, nextIdx>>
          /\ upcoming[l] # <<>>
      BY <1>1 DEF GetUpcomingEvent, EventDue
    <2>2. Head(upcoming[l]).sample \in Nat /\ Tail(upcoming[l]) \in Seq([time : Nat, sample : Nat])
      BY <2>1, EventIsTyped
    <2> QED BY <2>1, <2>2
  <1>2. CASE PushUpcomingEvent(l)
    <2> DEFINE event == [time |-> now + SignalDelay, sample |-> transitions[l]]
    <2>1. /\ upcoming' = [upcoming EXCEPT ![l] = Append(upcoming[l], event)]
          /\ fwd' = [fwd EXCEPT ![l] = "iterate"]
          /\ UNCHANGED <<transitions, total, storage, nextIdx, sample>>
      BY <1>2 DEF PushUpcomingEvent
    <2>2. event \in [time : Nat, sample : Nat]
      BY TrainingAssumption DEF MainType
    <2> HIDE DEF event
    <2>3. Append(upcoming[l], event) \in Seq([time : Nat, sample : Nat])
      BY <2>2, AppendProperties
    <2> QED BY <2>1, <2>3
  <1>3. CASE AddCount(l)
    BY <1>3 DEF AddCount
  <1>4. CASE AddStore(l)
    <2> DEFINE new == IF nextIdx[l] >= Len(storage[l])
                      THEN Append(storage[l], sample[l])
                      ELSE [storage[l] EXCEPT ![nextIdx[l] + 1] = sample[l]]
    <2>1. /\ storage' = [storage EXCEPT ![l] = new]
          /\ fwd' = [fwd EXCEPT ![l] = "advance"]
          /\ UNCHANGED <<transitions, upcoming, total, nextIdx, sample>>
      BY <1>4 DEF AddStore
    <2>2. /\ storage[l] \in Seq(Nat) /\ sample[l] \in Nat /\ nextIdx[l] \in Nat
          /\ Len(storage[l]) \in Nat
      BY LenProperties, TrainingAssumption
    <2>3. new \in Seq(Nat)
      <3>1. CASE nextIdx[l] >= Len(storage[l])
        BY <2>2, <3>1, AppendProperties
      <3>2. CASE ~(nextIdx[l] >= Len(storage[l]))
        <4>1. nextIdx[l] + 1 \in 1..Len(storage[l])
          BY <2>2, <3>2
        <4> QED BY <2>2, <3>2, <4>1, ExceptSeq
      <3> QED BY <3>1, <3>2
    <2> HIDE DEF new
    <2> QED BY <2>1, <2>3
  <1>5. CASE AddAdvance(l)
    <2>1. /\ nextIdx' = [nextIdx EXCEPT ![l] = Following(nextIdx[l])]
          /\ fwd' = [fwd EXCEPT ![l] = IF signaling = "NN" THEN "events" ELSE "iterate"]
          /\ UNCHANGED <<transitions, upcoming, total, storage, sample>>
      BY <1>5 DEF AddAdvance
    <2>2. Following(nextIdx[l]) \in 0..(Size - 1)
      BY TrainingAssumption DEF Following
    <2> QED BY <2>1, <2>2
  <1> QED BY <1>1, <1>2, <1>3, <1>4, <1>5 DEF ForwarderStep, AddStep

\* A step of a forwarder may count a sample and moves no other actor.
LEMMA ForwarderEffect ==
    ASSUME FwdType, NEW l \in Leaves, ForwarderStep(l)
    PROVE  /\ UNCHANGED mainVars /\ UNCHANGED trainerVars
           /\ fwd[l] # "iterate"
           /\ \A k \in Leaves : total'[k] = total[k] \/ total'[k] = total[k] + 1
  BY DEF ForwarderStep, AddStep, GetUpcomingEvent, PushUpcomingEvent, AddCount, AddStore,
         AddAdvance, FwdType


\* More samples leave the trainers' part of the invariant as it is.
LEMMA SamplesKeepSchedule ==
    ASSUME FwdType, TrainerType, NeverAhead, WorkIsDue, UNCHANGED trainerVars,
           \A k \in Leaves : total'[k] = total[k] \/ total'[k] = total[k] + 1
    PROVE  NeverAhead' /\ WorkIsDue'
  <1>1. UNCHANGED <<trainer, left, batchFrom, steps, targets>>
    BY DEF trainerVars
  <1>2. ASSUME NEW k \in Leaves
        PROVE  /\ Schedule(total[k]) \in Nat /\ Schedule(total'[k]) \in Nat
               /\ Schedule(total[k]) <= Schedule(total'[k])
    <2>1. total[k] \in Nat
      BY DEF FwdType
    <2>2. CASE total'[k] = total[k]
      BY <2>1, <2>2, ScheduleGrows
    <2>3. CASE total'[k] = total[k] + 1
      BY <2>1, <2>3, ScheduleGrows
    <2> QED BY <2>2, <2>3
  <1>3. NeverAhead'
    BY <1>1, <1>2 DEF NeverAhead, TrainerType
  <1>4. WorkIsDue'
    BY <1>1, <1>2 DEF WorkIsDue, Training, TrainerType
  <1> QED BY <1>3, <1>4

LEMMA ForwarderInv ==
    ASSUME IInv, NEW l \in Leaves, ForwarderStep(l)
    PROVE  IInv'
  <1>1. FwdType /\ TrainerType /\ MainType /\ NeverAhead /\ WorkIsDue /\ Shutdown
    BY TypeParts DEF IInv
  <1>2. /\ UNCHANGED mainVars /\ UNCHANGED trainerVars
        /\ fwd[l] # "iterate"
        /\ \A k \in Leaves : total'[k] = total[k] \/ total'[k] = total[k] + 1
    BY <1>1, ForwarderEffect
  <1>3. FwdType'
    BY <1>1, ForwarderTypes
  <1>4. TrainerType' /\ MainType'
    BY <1>1, <1>2 DEF trainerVars, mainVars, TrainerType, MainType
  <1>5. NeverAhead' /\ WorkIsDue'
    BY <1>1, <1>2, SamplesKeepSchedule
  <1>6. Shutdown'
    <2>1. main = "poll" /\ main' = main
      BY <1>1, <1>2 DEF Shutdown, Idle, mainVars
    <2> QED BY <2>1 DEF Shutdown
  <1>7. TrainTypeOK'
    BY <1>3, <1>4, TypeParts DEF TrainTypeOK, FwdType, TrainerType, MainType
  <1> QED BY <1>5, <1>6, <1>7 DEF IInv

\* The simulator's response ends a transition; nothing is counted yet.
LEMMA RespondInv ==
    ASSUME IInv, NEW l \in Leaves, NEW elapsed \in Elapsed, Respond(l, elapsed)
    PROVE  IInv'
  <1>1. FwdType /\ TrainerType /\ MainType /\ NeverAhead /\ WorkIsDue /\ Shutdown
    BY TypeParts DEF IInv
  <1>2. /\ main = "poll" /\ now' = now + elapsed
        /\ transitions' = [transitions EXCEPT ![l] = transitions[l] + 1]
        /\ fwd' = [fwd EXCEPT ![l] = IF signaling = "NN" THEN "events" ELSE "add"]
        /\ sample' = [sample EXCEPT ![l] = IF signaling = "NN" THEN sample[l]
                                                              ELSE transitions[l] + 1]
        /\ UNCHANGED <<signaling, episode, main, stop, saved, upcoming, total, storage,
                       nextIdx>>
        /\ UNCHANGED trainerVars
    BY DEF Respond
  <1>3. FwdType'
    BY <1>1, <1>2 DEF FwdType
  <1>4. TrainerType' /\ MainType'
    <2>1. elapsed \in Nat
      BY TrainingAssumption DEF Elapsed
    <2> QED BY <1>1, <1>2, <2>1 DEF trainerVars, TrainerType, MainType
  <1>5. NeverAhead' /\ WorkIsDue'
    BY <1>1, <1>2, SamplesKeepSchedule
  <1>6. Shutdown'
    BY <1>2 DEF Shutdown
  <1>7. TrainTypeOK'
    BY <1>3, <1>4 DEF TrainTypeOK, FwdType, TrainerType, MainType
  <1> QED BY <1>5, <1>6, <1>7 DEF IInv

-----------------------------------------------------------------------------
(* The trainer.                                                            *)

\* What a step of a trainer leaves to show: the types and the schedule.  It
\* moves only a trainer that is alive, so that none moves once all have ended.
LEMMA TrainerStepInv ==
    ASSUME IInv, NEW l \in Leaves, Alive(l),
           UNCHANGED mainVars, UNCHANGED fwdVars,
           TrainerType', NeverAhead', WorkIsDue'
    PROVE  IInv'
  <1>1. main \notin {"drain", "saved"} /\ main' = main
    BY DEF IInv, Shutdown, AllJoined, mainVars
  <1>2. TrainTypeOK'
    BY DEF IInv, TrainTypeOK, TrainerType, mainVars, fwdVars
  <1>3. Shutdown'
    BY <1>1 DEF IInv, Shutdown, Idle, mainVars, fwdVars
  <1> QED BY <1>2, <1>3 DEF IInv

LEMMA PendingIsDue ==
    ASSUME FwdType, TrainerType, NEW l \in Leaves
    PROVE  /\ Schedule(total[l]) \in Nat /\ Pending(l) \in Nat
           /\ Pending(l) > 0 => Pending(l) = Schedule(total[l]) - steps[l]
           /\ Pending(l) = 0 => Schedule(total[l]) <= steps[l]
           /\ Available(l) \in Nat /\ Available(l) <= Pending(l)
  <1>1. total[l] \in Nat /\ steps[l] \in Nat
    BY DEF FwdType, TrainerType
  <1>2. Schedule(total[l]) \in Nat
    BY <1>1, ScheduleGrows
  <1> QED BY <1>1, <1>2, TrainingAssumption DEF Pending, Available, Smaller

\* One more gradient step, when it is due, keeps the target network's age.
LEMMA UpdatedIsDue ==
    ASSUME TrainerType, NeverAhead, NEW l \in Leaves, Updated(l), UNCHANGED total,
           steps[l] < Schedule(total[l]), Schedule(total[l]) \in Nat
    PROVE  /\ NeverAhead'
           /\ steps' \in [Leaves -> Nat] /\ targets' \in [Leaves -> Nat]
           /\ \A k \in Leaves : steps'[k] = IF k = l THEN steps[k] + 1 ELSE steps[k]
  <1>1. /\ steps' = [steps EXCEPT ![l] = steps[l] + 1]
        /\ targets' = [targets EXCEPT ![l] =
             IF ShouldUpdateTarget(steps[l] + 1) THEN targets[l] + 1 ELSE targets[l]]
    BY DEF Updated
  <1>2. steps[l] \in Nat /\ targets[l] \in Nat
    BY DEF TrainerType
  <1>3. /\ steps' \in [Leaves -> Nat] /\ targets' \in [Leaves -> Nat]
        /\ \A k \in Leaves : steps'[k] = IF k = l THEN steps[k] + 1 ELSE steps[k]
        /\ \A k \in Leaves : k # l => targets'[k] = targets[k]
        /\ targets'[l] = IF ShouldUpdateTarget(steps[l] + 1) THEN targets[l] + 1 ELSE targets[l]
    BY <1>1, <1>2 DEF TrainerType
  <1>4. ShouldUpdateTarget(steps[l] + 1) <=> (steps[l] + 1) % TargetUpdateInterval = 0
    BY <1>2 DEF ShouldUpdateTarget
  <1>5. targets'[l] = (steps[l] + 1) \div TargetUpdateInterval
    <2>1. targets[l] = steps[l] \div TargetUpdateInterval
      BY DEF NeverAhead
    <2>2. (steps[l] + 1) \div TargetUpdateInterval =
             IF (steps[l] + 1) % TargetUpdateInterval = 0
             THEN steps[l] \div TargetUpdateInterval + 1
             ELSE steps[l] \div TargetUpdateInterval
      BY <1>2, DivisionOfNext, TrainingAssumption
    <2> QED BY <1>3, <1>4, <2>1, <2>2
  <1>6. ASSUME NEW k \in Leaves
        PROVE  /\ steps'[k] <= Schedule(total'[k])
               /\ targets'[k] = steps'[k] \div TargetUpdateInterval
    <2>1. CASE k = l
      BY <1>2, <1>3, <1>5, <2>1
    <2>2. CASE k # l
      BY <1>3, <2>2 DEF NeverAhead
    <2> QED BY <2>1, <2>2
  <1> QED BY <1>3, <1>6 DEF NeverAhead


LEMMA TrainerInv ==
    ASSUME IInv, NEW l \in Leaves, Trainer(l)
    PROVE  IInv'
  <1>1. FwdType /\ TrainerType /\ MainType /\ NeverAhead /\ WorkIsDue /\ Shutdown
    BY TypeParts DEF IInv
  <1>2. /\ Schedule(total[l]) \in Nat /\ Available(l) \in Nat
        /\ Available(l) > 0 => steps[l] + Available(l) <= Schedule(total[l])
    BY <1>1, PendingIsDue DEF TrainerType
  <1>3. Alive(l) /\ UNCHANGED mainVars /\ UNCHANGED fwdVars /\ total' = total
    BY DEF Trainer, TrainerIterate, TrainerStops, Sample, GradientStep, Alive, fwdVars
  <1>4. CASE TrainerIterate(l)
    <2>1. UNCHANGED <<batchFrom, steps, targets>>
      BY <1>4 DEF TrainerIterate
    <2>2. \/ trainer' = [trainer EXCEPT ![l] = "dead"] /\ left' = left
          \/ /\ Available(l) > 0 /\ left' = [left EXCEPT ![l] = Available(l)]
             /\ trainer' = [trainer EXCEPT ![l] = "sample"]
      BY <1>4 DEF TrainerIterate
    <2>3. TrainerType'
      BY <1>1, <1>2, <2>1, <2>2 DEF TrainerType
    <2>4. NeverAhead'
      BY <1>1, <1>3, <2>1 DEF NeverAhead
    <2>5. WorkIsDue'
      BY <1>1, <1>2, <1>3, <2>1, <2>2 DEF WorkIsDue, Training, TrainerType
    <2> QED BY <1>3, <2>3, <2>4, <2>5, TrainerStepInv
  <1>5. CASE TrainerStops(l)
    <2>1. /\ trainer' = [trainer EXCEPT ![l] = "ended"]
          /\ UNCHANGED <<left, batchFrom, steps, targets>>
      BY <1>5 DEF TrainerStops
    <2>2. TrainerType'
      BY <1>1, <2>1 DEF TrainerType
    <2>3. NeverAhead'
      BY <1>1, <1>3, <2>1 DEF NeverAhead
    <2>4. WorkIsDue'
      BY <1>1, <1>3, <2>1 DEF WorkIsDue, Training, TrainerType
    <2> QED BY <1>3, <2>2, <2>3, <2>4, TrainerStepInv
  <1>6. CASE Sample(l)
    <2>1. /\ trainer[l] = "sample" /\ UNCHANGED <<left, steps, targets>>
          /\ \/ trainer' = [trainer EXCEPT ![l] = "dead"] /\ batchFrom' = batchFrom
             \/ /\ trainer' = [trainer EXCEPT ![l] = "update"]
                /\ batchFrom' = [batchFrom EXCEPT ![l] = Len(storage[l])]
      BY <1>6 DEF Sample
    <2>2. Len(storage[l]) \in Nat
      <3>1. storage[l] \in Seq(Nat)
        BY <1>1 DEF FwdType
      <3> QED BY <3>1, LenProperties
    <2>3. TrainerType'
      BY <1>1, <2>1, <2>2 DEF TrainerType
    <2>4. NeverAhead'
      BY <1>1, <1>3, <2>1 DEF NeverAhead
    <2>5. WorkIsDue'
      BY <1>1, <1>3, <2>1 DEF WorkIsDue, Training, TrainerType
    <2> QED BY <1>3, <2>3, <2>4, <2>5, TrainerStepInv
  <1>7. CASE GradientStep(l)
    <2>1. /\ trainer[l] = "update" /\ Updated(l) /\ batchFrom' = batchFrom
          /\ left' = [left EXCEPT ![l] = left[l] - 1]
          /\ trainer' = [trainer EXCEPT ![l] = IF left[l] = 1 THEN "wait" ELSE "sample"]
      BY <1>7 DEF GradientStep
    <2>2. /\ left[l] > 0 /\ steps[l] + left[l] <= Schedule(total[l])
          /\ left[l] \in Nat /\ steps[l] \in Nat
      BY <1>1, <2>1 DEF WorkIsDue, Training, TrainerType
    <2>3. /\ NeverAhead'
          /\ steps' \in [Leaves -> Nat] /\ targets' \in [Leaves -> Nat]
          /\ \A k \in Leaves : steps'[k] = IF k = l THEN steps[k] + 1 ELSE steps[k]
      BY <1>1, <1>2, <1>3, <2>1, <2>2, UpdatedIsDue
    <2>4. TrainerType'
      <3>1. left' \in [Leaves -> Nat]
        BY <1>1, <2>1, <2>2 DEF TrainerType
      <3>2. trainer' \in [Leaves -> {"wait", "sample", "update", "ended", "dead"}]
        BY <1>1, <2>1 DEF TrainerType
      <3>3. batchFrom' \in [Leaves -> Nat]
        BY <1>1, <2>1 DEF TrainerType
      <3> QED BY <2>3, <3>1, <3>2, <3>3 DEF TrainerType
    <2>5. WorkIsDue'
      <3> SUFFICES ASSUME NEW k \in Leaves, trainer'[k] \in {"sample", "update"}
                   PROVE  left'[k] > 0 /\ steps'[k] + left'[k] <= Schedule(total'[k])
        BY DEF WorkIsDue, Training
      <3>1. CASE k = l
        <4>1. left[l] # 1 /\ left'[l] = left[l] - 1 /\ steps'[l] = steps[l] + 1
          BY <1>1, <2>1, <2>3, <3>1 DEF TrainerType
        <4> QED BY <1>2, <1>3, <2>2, <3>1, <4>1
      <3>2. CASE k # l
        <4>1. trainer'[k] = trainer[k] /\ left'[k] = left[k] /\ steps'[k] = steps[k]
          BY <1>1, <2>1, <2>3, <3>2 DEF TrainerType
        <4> QED BY <1>1, <1>3, <4>1 DEF WorkIsDue, Training
      <3> QED BY <3>1, <3>2
    <2> QED BY <1>3, <2>3, <2>4, <2>5, TrainerStepInv
  <1> QED BY <1>4, <1>5, <1>6, <1>7 DEF Trainer

-----------------------------------------------------------------------------
(* The main thread.                                                        *)

LEMMA MainInv ==
    ASSUME IInv, NextEpisode \/ StopTrainers \/ JoinTimeout \/ Joined
    PROVE  IInv'
  <1>1. FwdType /\ TrainerType /\ MainType /\ NeverAhead /\ WorkIsDue /\ Shutdown
    BY TypeParts DEF IInv
  <1>2. /\ UNCHANGED <<signaling, saved, fwd, transitions, total, storage, nextIdx, sample>>
        /\ UNCHANGED <<trainer, left, batchFrom, steps, targets>>
    BY DEF NextEpisode, StopTrainers, JoinTimeout, Joined, fwdVars, trainerVars
  <1>3. FwdType'
    <2>1. upcoming' = upcoming \/ upcoming' = [l \in Leaves |-> <<>>]
      BY DEF NextEpisode, StopTrainers, JoinTimeout, Joined, fwdVars
    <2>2. upcoming' \in [Leaves -> Seq([time : Nat, sample : Nat])]
      BY <1>1, <2>1, EmptySeq DEF FwdType
    <2> QED BY <1>1, <1>2, <2>2 DEF FwdType
  <1>4. TrainerType' /\ NeverAhead' /\ WorkIsDue'
    BY <1>1, <1>2 DEF TrainerType, NeverAhead, WorkIsDue, Training
  <1>5. MainType'
    <2>1. now' \in Nat /\ episode' \in 1..NumEpisodes
      BY <1>1, TrainingAssumption
         DEF MainType, NextEpisode, StopTrainers, JoinTimeout, Joined
    <2>2. main' \in {"poll", "join", "drain", "saved", "refused"} /\ stop' \in BOOLEAN
      BY <1>1 DEF MainType, NextEpisode, StopTrainers, JoinTimeout, Joined
    <2> QED BY <1>1, <1>2, <2>1, <2>2 DEF MainType
  <1>6. Shutdown'
    <2>1. CASE NextEpisode
      BY <2>1 DEF NextEpisode, Shutdown
    <2>2. CASE StopTrainers
      BY <1>2, <2>2 DEF StopTrainers, Shutdown, Idle
    <2>3. CASE JoinTimeout
      BY <1>1, <1>2, <2>3 DEF JoinTimeout, Shutdown, Idle
    <2>4. CASE Joined
      BY <1>1, <1>2, <2>4 DEF Joined, Shutdown, Idle, AllJoined, Alive
    <2> QED BY <2>1, <2>2, <2>3, <2>4
  <1>7. TrainTypeOK'
    BY <1>3, <1>4, <1>5 DEF TrainTypeOK, FwdType, TrainerType, MainType
  <1> QED BY <1>4, <1>6, <1>7 DEF IInv

\* While the main thread drains, it alone makes gradient steps.
LEMMA DrainInv ==
    ASSUME IInv, NEW l \in Leaves, Drain(l)
    PROVE  IInv'
  <1>1. FwdType /\ TrainerType /\ MainType /\ NeverAhead /\ WorkIsDue /\ Shutdown
    BY TypeParts DEF IInv
  <1>2. /\ main = "drain" /\ Pending(l) > 0 /\ Updated(l)
        /\ UNCHANGED mainVars /\ UNCHANGED fwdVars /\ total' = total /\ main' = main
        /\ UNCHANGED <<trainer, left, batchFrom>>
    BY DEF Drain, Backlog, mainVars, fwdVars
  <1>3. steps[l] < Schedule(total[l]) /\ Schedule(total[l]) \in Nat
    BY <1>1, <1>2, PendingIsDue DEF TrainerType
  <1>4. /\ NeverAhead'
        /\ steps' \in [Leaves -> Nat] /\ targets' \in [Leaves -> Nat]
    BY <1>1, <1>2, <1>3, UpdatedIsDue
  <1>5. TrainTypeOK'
    BY <1>1, <1>2, <1>4 DEF TrainTypeOK, FwdType, TrainerType, MainType, mainVars, fwdVars
  <1>6. AllJoined
    BY <1>1, <1>2 DEF Shutdown
  <1>7. WorkIsDue'
    BY <1>2, <1>6 DEF WorkIsDue, Training, AllJoined, Alive
  <1>8. Shutdown'
    BY <1>1, <1>2, <1>6 DEF Shutdown, Idle, AllJoined, Alive, mainVars, fwdVars
  <1> QED BY <1>4, <1>5, <1>7, <1>8 DEF IInv

LEMMA SaveInv == IInv /\ SaveAllModels => IInv'
  <1> SUFFICES ASSUME IInv, SaveAllModels PROVE IInv'
    OBVIOUS
  <1>1. FwdType /\ TrainerType /\ MainType /\ NeverAhead /\ WorkIsDue /\ Shutdown
    BY TypeParts DEF IInv
  <1>2. /\ main = "drain" /\ Backlog = {} /\ saved' = steps /\ main' = "saved"
        /\ UNCHANGED <<signaling, now, episode, stop>>
        /\ UNCHANGED <<fwd, transitions, upcoming, total, storage, nextIdx, sample>>
        /\ UNCHANGED <<trainer, left, batchFrom, steps, targets>>
    BY DEF SaveAllModels, fwdVars, trainerVars
  <1>3. TrainTypeOK'
    BY <1>1, <1>2 DEF TrainTypeOK, FwdType, TrainerType, MainType
  <1>4. NeverAhead' /\ WorkIsDue'
    BY <1>1, <1>2 DEF NeverAhead, WorkIsDue, Training
  <1>5. Shutdown'
    <2>1. \A l \in Leaves : Pending(l) = 0
      BY <1>1, <1>2, PendingIsDue DEF Backlog
    <2>2. \A l \in Leaves : Pending(l)' = 0 /\ saved'[l] = steps'[l]
      BY <1>2, <2>1 DEF Pending
    <2> QED BY <1>1, <1>2, <2>2 DEF Shutdown, Idle, AllJoined, Alive
  <1> QED BY <1>3, <1>4, <1>5 DEF IInv

-----------------------------------------------------------------------------
(* The theorems.                                                           *)

LEMMA InitInv == Init => IInv
  <1> SUFFICES ASSUME Init PROVE IInv
    OBVIOUS
  <1>1. FwdType
    <2>1. <<>> \in Seq(Nat) /\ <<>> \in Seq([time : Nat, sample : Nat])
      BY EmptySeq
    <2>2. 0 \in 0..(Size - 1)
      BY TrainingAssumption
    <2> QED BY <2>1, <2>2 DEF Init, FwdType
  <1>2. TrainerType
    BY DEF Init, TrainerType
  <1>3. MainType
    <2>1. 1 \in 1..NumEpisodes
      BY TrainingAssumption
    <2> QED BY <2>1 DEF Init, MainType
  <1>4. NeverAhead
    <2>1. Schedule(0) \in Nat
      BY ScheduleGrows
    <2>2. 0 \div TargetUpdateInterval = 0
      BY TrainingAssumption, Z3
    <2>3. ASSUME NEW l \in Leaves
          PROVE  steps[l] = 0 /\ total[l] = 0 /\ targets[l] = 0
      BY DEF Init
    <2>4. ASSUME NEW l \in Leaves
          PROVE  steps[l] <= Schedule(total[l])
      BY <2>1, <2>3
    <2>5. ASSUME NEW l \in Leaves
          PROVE  targets[l] = steps[l] \div TargetUpdateInterval
      BY <2>2, <2>3, Zenon
    <2> QED BY <2>4, <2>5 DEF NeverAhead
  <1>5. WorkIsDue /\ Shutdown
    BY DEF Init, WorkIsDue, Training, Shutdown
  <1> QED BY <1>1, <1>2, <1>3, <1>4, <1>5, TypeParts DEF IInv

LEMMA NextInv == IInv /\ [Next]_vars => IInv'
  <1> SUFFICES ASSUME IInv, [Next]_vars PROVE IInv'
    OBVIOUS
  <1>1. ASSUME NEW l \in Leaves, NEW elapsed \in Elapsed, Respond(l, elapsed)
        PROVE  IInv'
    BY <1>1, RespondInv
  <1>2. ASSUME NEW l \in Leaves, ForwarderStep(l) PROVE IInv'
    BY <1>2, ForwarderInv
  <1>3. ASSUME NEW l \in Leaves, Trainer(l) PROVE IInv'
    BY <1>3, TrainerInv
  <1>4. CASE NextEpisode \/ StopTrainers \/ JoinTimeout \/ Joined
    BY <1>4, MainInv
  <1>5. ASSUME NEW l \in Leaves, Drain(l) PROVE IInv'
    BY <1>5, DrainInv
  <1>6. CASE SaveAllModels
    BY <1>6, SaveInv
  <1>7. CASE UNCHANGED vars
    BY <1>7 DEF vars, mainVars, fwdVars, trainerVars, IInv, TrainTypeOK, NeverAhead,
                WorkIsDue, Training, Shutdown, Idle, AllJoined, Alive, Pending
  <1> QED BY <1>1, <1>2, <1>3, <1>4, <1>5, <1>6, <1>7 DEF Next, MainEnd, Finished

\* The invariant holds in every reachable state.
THEOREM Invariance == Spec => []IInv
  BY InitInv, NextInv, PTL DEF Spec

\* Every variable is of its type.
THEOREM TypeCorrect == Spec => []TrainTypeOK
  <1>1. IInv => TrainTypeOK
    BY DEF IInv
  <1> QED BY <1>1, Invariance, PTL

\* No trainer is ahead of its schedule, and every target network is as old as
\* the schedule says.
THEOREM LearningNeverAhead == Spec => []NeverAhead
  <1>1. IInv => NeverAhead
    BY DEF IInv
  <1> QED BY <1>1, Invariance, PTL

\* Nobody trains a model while the main thread drains and saves it.
THEOREM OneTrainer == Spec => []OneTrainerPerModel
  <1>1. IInv => OneTrainerPerModel
    BY DEF IInv, Shutdown, AllJoined, Alive, OneTrainerPerModel
  <1> QED BY <1>1, Invariance, PTL

\* A checkpoint holds exactly the updates its samples imply.
THEOREM CheckpointIsExact == Spec => []CheckpointExact
  <1>1. IInv => CheckpointExact
    <2> SUFFICES ASSUME IInv, main = "saved", NEW l \in Leaves
                 PROVE  saved[l] = Schedule(total[l])
      BY DEF CheckpointExact
    <2>1. saved[l] = steps[l] /\ Pending(l) = 0
      BY DEF IInv, Shutdown
    <2>2. Schedule(total[l]) \in Nat /\ Schedule(total[l]) <= steps[l] /\ steps[l] \in Nat
      BY <2>1, TypeParts, PendingIsDue DEF IInv, TrainerType
    <2>3. steps[l] <= Schedule(total[l])
      BY DEF IInv, NeverAhead
    <2> QED BY <2>1, <2>2, <2>3
  <1> QED BY <1>1, Invariance, PTL

-----------------------------------------------------------------------------
(* The replay buffer.  The samples come in order as long as no queue has   *)
(* been lost: what is counted, in hand and on its way adds up to what the  *)
(* forwarder has written.                                                  *)

\* The latest count samples, the next one to go to position pos.
Ring(store, pos, count) ==
    /\ Len(store) = Smaller(count, Size)
    /\ Len(store) < Size => pos = Len(store)
    /\ \A i \in 1..Len(store) :
         store[i] = count - pos + i - (IF i <= pos THEN 0 ELSE Len(store))

\* What AddStore does to the storage.
Written(store, pos, item) ==
    IF pos >= Len(store) THEN Append(store, item) ELSE [store EXCEPT ![pos + 1] = item]

\* Written to or appended at its position, the next sample keeps the ring.
LEMMA StoreKeepsRing ==
    ASSUME NEW store \in Seq(Nat), NEW pos \in 0..(Size - 1), NEW count \in Nat,
           Ring(store, pos, count)
    PROVE  Ring(Written(store, pos, count + 1), Following(pos), count + 1)
  <1> DEFINE new == Written(store, pos, count + 1)
  <1> SUFFICES Ring(new, Following(pos), count + 1)
    OBVIOUS
  <1>1. Size \in Nat \ {0} /\ Len(store) \in Nat
    BY TrainingAssumption, LenProperties
  <1>2. /\ Len(store) = Smaller(count, Size)
        /\ Len(store) < Size => pos = Len(store)
        /\ \A i \in 1..Len(store) :
             store[i] = count - pos + i - (IF i <= pos THEN 0 ELSE Len(store))
    BY DEF Ring
  <1>3. CASE pos >= Len(store)
    <2>1. Len(store) = count /\ pos = count /\ count < Size
      BY <1>1, <1>2, <1>3 DEF Smaller
    <2>2. /\ Len(new) = count + 1 /\ new[count + 1] = count + 1
          /\ \A i \in 1..count : new[i] = store[i]
      BY <1>3, <2>1, AppendProperties DEF Written
    <2> HIDE DEF new
    <2>3. ASSUME NEW i \in 1..(count + 1) PROVE new[i] = i
      <3>1. CASE i = count + 1
        BY <2>2, <3>1
      <3>2. CASE i \in 1..count
        <4>1. new[i] = count - pos + i - 0
          BY <1>2, <2>1, <2>2, <3>2
        <4> QED BY <2>1, <4>1
      <3> QED BY <3>1, <3>2
    <2>4. Following(pos) = IF count + 1 = Size THEN 0 ELSE count + 1
      BY <2>1 DEF Following
    <2> QED BY <1>1, <2>1, <2>2, <2>3, <2>4 DEF Ring, Smaller
  <1>4. CASE ~(pos >= Len(store))
    <2>1. Len(store) = Size /\ count >= Size /\ pos + 1 \in 1..Size
      BY <1>1, <1>2, <1>4 DEF Smaller
    <2>2. /\ Len(new) = Size /\ new[pos + 1] = count + 1
          /\ \A i \in 1..Size : i # pos + 1 => new[i] = store[i]
      BY <1>4, <2>1, ExceptSeq DEF Written
    <2> HIDE DEF new
    <2>3. ASSUME NEW i \in 1..Size
          PROVE  new[i] = (count + 1) - Following(pos) + i
                          - (IF i <= Following(pos) THEN 0 ELSE Size)
      <3>1. CASE i = pos + 1
        BY <1>1, <2>2, <3>1 DEF Following
      <3>2. CASE i # pos + 1
        <4>1. new[i] = count - pos + i - (IF i <= pos THEN 0 ELSE Size)
          BY <1>2, <2>1, <2>2, <3>2
        <4>2. CASE pos + 1 = Size
          <5>1. Following(pos) = 0 /\ i <= pos /\ ~(i <= 0)
            BY <1>1, <3>2, <4>2 DEF Following
          <5> QED BY <1>1, <4>1, <4>2, <5>1
        <4>3. CASE pos + 1 # Size
          <5>1. Following(pos) = pos + 1 /\ (i <= pos <=> i <= pos + 1)
            BY <1>1, <3>2, <4>3 DEF Following
          <5> QED BY <1>1, <4>1, <5>1
        <4> QED BY <4>2, <4>3
      <3> QED BY <3>1, <3>2
    <2> QED BY <1>1, <2>1, <2>2, <2>3 DEF Ring, Smaller
  <1> QED BY <1>3, <1>4

InHand(l) == IF fwd[l] = "add" THEN 1 ELSE 0
Unpushed(l) == IF signaling = "NN" /\ fwd[l] # "iterate" THEN 1 ELSE 0

\* The samples on their way are the next ones, in order.
Queue(l) ==
    /\ \A i \in 1..Len(upcoming[l]) :
         upcoming[l][i].sample = total[l] + InHand(l) + i
    /\ transitions[l] = total[l] + InHand(l) + Unpushed(l)
                        + Len(upcoming[l])
    /\ fwd[l] = "add" => sample[l] = total[l] + 1
    /\ fwd[l] = "store" => sample[l] = total[l] /\ total[l] > 0
    /\ signaling = "ideal" => fwd[l] # "events" /\ upcoming[l] = <<>>

RingOf(l) == Ring(storage[l], Position(l), StoredCount(l))

RInv == InOrder => \A l \in Leaves : Queue(l) /\ RingOf(l)


LEMMA SumOfNext == \A m, n \in Nat : m + (n + 1) = m + 1 + n
  OBVIOUS

\* The numbers the proofs below calculate with.
LEMMA LeafNumbers ==
    ASSUME FwdType, NEW l \in Leaves
    PROVE  /\ total[l] \in Nat /\ transitions[l] \in Nat /\ sample[l] \in Nat
           /\ nextIdx[l] \in 0..(Size - 1) /\ storage[l] \in Seq(Nat)
           /\ upcoming[l] \in Seq([time : Nat, sample : Nat]) /\ Len(upcoming[l]) \in Nat
           /\ fwd[l] \in {"iterate", "events", "add", "store", "advance"}
  <1>1. upcoming[l] \in Seq([time : Nat, sample : Nat])
    BY DEF FwdType
  <1>2. Len(upcoming[l]) \in Nat
    BY <1>1, LenProperties
  <1> QED BY <1>2 DEF FwdType

\* A step that leaves a leaf's forwarder alone leaves its ring and queue alone.
LEMMA OtherLeaf ==
    ASSUME NEW k \in Leaves, Queue(k), RingOf(k), signaling' = signaling,
           fwd'[k] = fwd[k], transitions'[k] = transitions[k],
           upcoming'[k] = upcoming[k], total'[k] = total[k],
           storage'[k] = storage[k], nextIdx'[k] = nextIdx[k], sample'[k] = sample[k]
    PROVE  Queue(k)' /\ RingOf(k)'
  BY DEF Queue, RingOf, Ring, InHand, Unpushed, Position, StoredCount

LEMMA ForwarderIsLocal ==
    ASSUME FwdType, NEW l \in Leaves, NEW k \in Leaves, k # l, ForwarderStep(l)
    PROVE  /\ fwd'[k] = fwd[k] /\ transitions'[k] = transitions[k]
           /\ upcoming'[k] = upcoming[k] /\ total'[k] = total[k]
           /\ storage'[k] = storage[k] /\ nextIdx'[k] = nextIdx[k] /\ sample'[k] = sample[k]
  BY DEF FwdType, ForwarderStep, AddStep, GetUpcomingEvent, PushUpcomingEvent, AddCount,
         AddStore, AddAdvance

LEMMA GetEventRing ==
    ASSUME FwdType, NEW l \in Leaves, Queue(l), RingOf(l), signaling' = signaling,
           GetUpcomingEvent(l)
    PROVE  Queue(l)' /\ RingOf(l)'
  <1> DEFINE queue == upcoming[l]
  <1>1. /\ fwd[l] = "events" /\ queue # <<>>
        /\ fwd'[l] = "add" /\ sample'[l] = Head(queue).sample /\ upcoming'[l] = Tail(queue)
        /\ UNCHANGED <<transitions, total, storage, nextIdx>>
    BY DEF GetUpcomingEvent, EventDue, FwdType
  <1>2. /\ queue \in Seq([time : Nat, sample : Nat]) /\ Len(queue) \in Nat /\ total[l] \in Nat
        /\ transitions[l] \in Nat
    BY LeafNumbers
  <1>3. /\ Len(queue) > 0 /\ Len(Tail(queue)) = Len(queue) - 1
        /\ \A i \in 1..Len(Tail(queue)) : Tail(queue)[i] = queue[i + 1]
        /\ Head(queue) = queue[1]
    <2> HIDE DEF queue
    <2> QED BY <1>1, <1>2, HeadTailProperties, EmptySeq
  <1>4. /\ \A i \in 1..Len(queue) : queue[i].sample = total[l] + i
        /\ transitions[l] = total[l] + Unpushed(l) + Len(queue)
        /\ signaling # "ideal"
    BY <1>1, <1>2 DEF Queue, InHand, Unpushed
  <1> HIDE DEF queue
  <1>5. ASSUME NEW i \in 1..Len(Tail(queue))
        PROVE  Tail(queue)[i].sample = total[l] + 1 + i
    <2>1. i + 1 \in 1..Len(queue) /\ i \in Int
      BY <1>2, <1>3
    <2>2. Tail(queue)[i] = queue[i + 1] /\ queue[i + 1].sample = total[l] + (i + 1)
      BY <1>3, <1>4, <2>1
    <2>3. total[l] \in Nat /\ i \in Nat
      BY <1>2
    <2>4. total[l] + (i + 1) = total[l] + 1 + i
      BY <2>3, SumOfNext
    <2> QED BY <2>2, <2>4
  <1>6. Head(queue).sample = total[l] + 1
    BY <1>2, <1>3, <1>4
  <1>7. Queue(l)'
    <2>1. InHand(l)' = 1 /\ Unpushed(l)' = Unpushed(l) /\ Unpushed(l) \in {0, 1}
      BY <1>1 DEF InHand, Unpushed
    <2> QED BY <1>1, <1>2, <1>3, <1>4, <1>5, <1>6, <2>1 DEF Queue
  <1>8. RingOf(l)'
    BY <1>1 DEF RingOf, Ring, Position, StoredCount
  <1> QED BY <1>7, <1>8

LEMMA PushEventRing ==
    ASSUME FwdType, MainType, NEW l \in Leaves, Queue(l), RingOf(l), signaling' = signaling,
           PushUpcomingEvent(l)
    PROVE  Queue(l)' /\ RingOf(l)'
  <1> DEFINE queue == upcoming[l]
             event == [time |-> now + SignalDelay, sample |-> transitions[l]]
  <1>1. /\ fwd[l] = "events" /\ fwd'[l] = "iterate" /\ upcoming'[l] = Append(queue, event)
        /\ UNCHANGED <<transitions, total, storage, nextIdx, sample>>
    BY DEF PushUpcomingEvent, FwdType
  <1>2. /\ queue \in Seq([time : Nat, sample : Nat]) /\ Len(queue) \in Nat /\ total[l] \in Nat
        /\ transitions[l] \in Nat
    BY LeafNumbers
  <1>3. event \in [time : Nat, sample : Nat] /\ event.sample = transitions[l]
    BY <1>2, TrainingAssumption DEF MainType
  <1>4. /\ \A i \in 1..Len(queue) : queue[i].sample = total[l] + i
        /\ signaling # "ideal"
        /\ transitions[l] = total[l] + Unpushed(l) + Len(queue)
    BY <1>1, <1>2 DEF Queue, InHand, Unpushed
  <1>5. Unpushed(l) = 1
    BY <1>1, <1>4, TrainingAssumption DEF Unpushed, MainType
  <1> HIDE DEF queue, event
  <1>6. /\ Len(Append(queue, event)) = Len(queue) + 1
        /\ \A i \in 1..Len(queue) : Append(queue, event)[i] = queue[i]
        /\ Append(queue, event)[Len(queue) + 1] = event
    BY <1>2, <1>3, AppendProperties
  <1>7. ASSUME NEW i \in 1..(Len(queue) + 1)
        PROVE  Append(queue, event)[i].sample = total[l] + i
    <2>1. CASE i = Len(queue) + 1
      <3>1. Append(queue, event)[i].sample = transitions[l]
        BY <1>3, <1>6, <2>1
      <3>2. transitions[l] = total[l] + Unpushed(l) + Len(queue)
        BY <1>4
      <3>3. total[l] \in Nat /\ Len(queue) \in Nat
        BY <1>2
      <3>4. transitions[l] = total[l] + i
        BY <1>5, <2>1, <3>2, <3>3, SumOfNext
      <3> QED BY <3>1, <3>4
    <2>2. CASE i # Len(queue) + 1
      <3>1. i \in 1..Len(queue)
        BY <1>2, <2>2
      <3> QED BY <1>4, <1>6, <3>1
    <2> QED BY <2>1, <2>2
  <1>8. Queue(l)'
    <2>1. InHand(l)' = 0 /\ Unpushed(l)' = 0
      BY <1>1 DEF InHand, Unpushed
    <2> QED BY <1>1, <1>2, <1>4, <1>5, <1>6, <1>7, <2>1 DEF Queue
  <1>9. RingOf(l)'
    BY <1>1 DEF RingOf, Ring, Position, StoredCount
  <1> QED BY <1>8, <1>9

LEMMA AddCountRing ==
    ASSUME FwdType, NEW l \in Leaves, Queue(l), RingOf(l), signaling' = signaling,
           AddCount(l)
    PROVE  Queue(l)' /\ RingOf(l)'
  <1>1. /\ fwd[l] = "add" /\ fwd'[l] = "store" /\ total'[l] = total[l] + 1
        /\ UNCHANGED <<transitions, upcoming, storage, nextIdx, sample>>
    BY DEF AddCount, FwdType
  <1>2. total[l] \in Nat /\ Len(upcoming[l]) \in Nat
    BY LeafNumbers
  <1>3. InHand(l) = 1 /\ InHand(l)' = 0 /\ Unpushed(l)' = Unpushed(l) /\ Unpushed(l) \in {0, 1}
    BY <1>1 DEF InHand, Unpushed
  <1>4. Queue(l)'
    BY <1>1, <1>2, <1>3 DEF Queue
  <1>5. Position(l)' = Position(l) /\ StoredCount(l)' = StoredCount(l)
    BY <1>1, <1>2 DEF Position, StoredCount
  <1>6. RingOf(l)'
    BY <1>1, <1>5 DEF RingOf, Ring
  <1> QED BY <1>4, <1>6

LEMMA AddStoreRing ==
    ASSUME FwdType, NEW l \in Leaves, Queue(l), RingOf(l), signaling' = signaling,
           AddStore(l)
    PROVE  Queue(l)' /\ RingOf(l)'
  <1>1. /\ fwd[l] = "store" /\ fwd'[l] = "advance"
        /\ storage'[l] = Written(storage[l], nextIdx[l], sample[l])
        /\ UNCHANGED <<transitions, upcoming, total, nextIdx, sample>>
    BY DEF AddStore, Written, FwdType
  <1>2. /\ total[l] \in Nat /\ nextIdx[l] \in 0..(Size - 1) /\ storage[l] \in Seq(Nat)
    BY LeafNumbers
  <1>3. sample[l] = total[l] /\ total[l] > 0
    BY <1>1 DEF Queue
  <1>4. Queue(l)'
    <2>1. InHand(l)' = InHand(l) /\ Unpushed(l)' = Unpushed(l)
      BY <1>1 DEF InHand, Unpushed
    <2> QED BY <1>1, <2>1 DEF Queue
  <1>5. Ring(storage[l], nextIdx[l], total[l] - 1)
    BY <1>1 DEF RingOf, Position, StoredCount
  <1>6. Ring(Written(storage[l], nextIdx[l], total[l]), Following(nextIdx[l]), total[l])
    <2>1. total[l] - 1 \in Nat /\ (total[l] - 1) + 1 = total[l]
      BY <1>2, <1>3
    <2> QED BY <1>2, <1>5, <2>1, StoreKeepsRing
  <1>7. Position(l)' = Following(nextIdx[l]) /\ StoredCount(l)' = total[l]
    BY <1>1 DEF Position, StoredCount
  <1>8. RingOf(l)'
    <2>1. RingOf(l)' = Ring(storage'[l], Position(l)', StoredCount(l)')
      BY DEF RingOf, Ring
    <2> QED BY <1>1, <1>3, <1>6, <1>7, <2>1
  <1> QED BY <1>4, <1>8

LEMMA AddAdvanceRing ==
    ASSUME FwdType, MainType, NEW l \in Leaves, Queue(l), RingOf(l), signaling' = signaling,
           AddAdvance(l)
    PROVE  Queue(l)' /\ RingOf(l)'
  <1>1. /\ fwd[l] = "advance" /\ fwd'[l] = IF signaling = "NN" THEN "events" ELSE "iterate"
        /\ nextIdx'[l] = Following(nextIdx[l])
        /\ UNCHANGED <<transitions, upcoming, total, storage, sample>>
    BY DEF AddAdvance, FwdType
  <1>2. Queue(l)'
    <2>1. InHand(l)' = InHand(l) /\ Unpushed(l)' = Unpushed(l)
      BY <1>1 DEF InHand, Unpushed
    <2> QED BY <1>1, <2>1 DEF Queue
  <1>3. Position(l)' = Position(l) /\ StoredCount(l)' = StoredCount(l)
    BY <1>1 DEF Position, StoredCount
  <1>4. RingOf(l)'
    BY <1>1, <1>3 DEF RingOf, Ring
  <1> QED BY <1>2, <1>4


LEMMA ForwarderRing ==
    ASSUME IInv, RInv, NEW l \in Leaves, ForwarderStep(l)
    PROVE  RInv'
  <1>1. FwdType /\ MainType
    BY TypeParts DEF IInv
  <1>2. signaling' = signaling /\ InOrder' = InOrder
    BY <1>1, ForwarderEffect DEF mainVars, InOrder
  <1> SUFFICES ASSUME InOrder, NEW k \in Leaves
               PROVE  Queue(k)' /\ RingOf(k)'
    BY <1>2 DEF RInv
  <1>3. Queue(k) /\ RingOf(k)
    BY DEF RInv
  <1>4. CASE k # l
    BY <1>1, <1>2, <1>3, <1>4, ForwarderIsLocal, OtherLeaf
  <1>5. CASE k = l
    BY <1>1, <1>2, <1>3, <1>5, GetEventRing, PushEventRing, AddCountRing, AddStoreRing,
       AddAdvanceRing DEF ForwarderStep, AddStep
  <1> QED BY <1>4, <1>5

LEMMA RespondRing ==
    ASSUME IInv, RInv, NEW l \in Leaves, NEW elapsed \in Elapsed, Respond(l, elapsed)
    PROVE  RInv'
  <1>1. FwdType /\ MainType
    BY TypeParts DEF IInv
  <1>2. /\ fwd[l] = "iterate"
        /\ transitions' = [transitions EXCEPT ![l] = transitions[l] + 1]
        /\ fwd' = [fwd EXCEPT ![l] = IF signaling = "NN" THEN "events" ELSE "add"]
        /\ sample' = [sample EXCEPT ![l] = IF signaling = "NN" THEN sample[l]
                                                              ELSE transitions[l] + 1]
        /\ UNCHANGED <<signaling, episode, upcoming, total, storage, nextIdx>>
    BY DEF Respond
  <1>3. signaling' = signaling /\ InOrder' = InOrder
    BY <1>2 DEF InOrder
  <1> SUFFICES ASSUME InOrder, NEW k \in Leaves
               PROVE  Queue(k)' /\ RingOf(k)'
    BY <1>3 DEF RInv
  <1>4. Queue(k) /\ RingOf(k)
    BY DEF RInv
  <1>5. CASE k # l
    <2>1. /\ fwd'[k] = fwd[k] /\ transitions'[k] = transitions[k] /\ sample'[k] = sample[k]
      BY <1>1, <1>2, <1>5 DEF FwdType
    <2> QED BY <1>2, <1>4, <2>1, OtherLeaf
  <1>6. CASE k = l
    <2>1. /\ fwd'[k] = IF signaling = "NN" THEN "events" ELSE "add"
          /\ transitions'[k] = transitions[k] + 1
          /\ signaling # "NN" => sample'[k] = transitions[k] + 1
          /\ UNCHANGED <<signaling, upcoming, total, storage, nextIdx>>
      BY <1>1, <1>2, <1>6 DEF FwdType
    <2>2. total[k] \in Nat /\ transitions[k] \in Nat /\ Len(upcoming[k]) \in Nat
      BY <1>1, LeafNumbers
    <2>3. InHand(k) = 0 /\ Unpushed(k) = 0
      BY <1>2, <1>6 DEF InHand, Unpushed
    <2>4. transitions[k] = total[k] + Len(upcoming[k])
      BY <1>4, <2>2, <2>3 DEF Queue
    <2>5. Queue(k)'
      <3>1. CASE signaling = "NN"
        <4>1. InHand(k)' = 0 /\ Unpushed(k)' = 1 /\ fwd'[k] = "events"
          BY <2>1, <3>1 DEF InHand, Unpushed
        <4> QED BY <1>4, <2>1, <2>2, <2>3, <2>4, <3>1, <4>1 DEF Queue
      <3>2. CASE signaling # "NN"
        <4>1. signaling = "ideal"
          BY <1>1, <3>2, TrainingAssumption DEF MainType
        <4>2. upcoming[k] = <<>>
          BY <1>4, <4>1 DEF Queue
        <4>3. Len(upcoming[k]) = 0
          BY <4>2, EmptySeq
        <4>4. InHand(k)' = 1 /\ Unpushed(k)' = 0 /\ fwd'[k] = "add"
          BY <2>1, <3>2 DEF InHand, Unpushed
        <4>5. \A i \in 1..Len(upcoming'[k]) : FALSE
          BY <2>1, <4>3
        <4> QED BY <2>1, <2>2, <2>4, <3>2, <4>2, <4>3, <4>4, <4>5 DEF Queue
      <3> QED BY <3>1, <3>2
    <2>6. Position(k)' = Position(k) /\ StoredCount(k)' = StoredCount(k)
      BY <1>2, <1>6, <2>1 DEF Position, StoredCount
    <2>7. RingOf(k)'
      BY <1>4, <2>1, <2>6 DEF RingOf, Ring
    <2> QED BY <2>5, <2>7
  <1> QED BY <1>5, <1>6

\* The other threads leave the buffers alone; only a new episode drops what is
\* on its way, and then the samples of NN signalling are in order no more.
LEMMA OthersRing ==
    ASSUME IInv, RInv, UNCHANGED <<signaling, fwd, transitions, total, storage, nextIdx, sample>>,
           \/ UNCHANGED <<episode, upcoming>>
           \/ episode' = episode + 1 /\ upcoming' = [l \in Leaves |-> <<>>]
    PROVE  RInv'
  <1>1. FwdType /\ MainType
    BY TypeParts DEF IInv
  <1>2. CASE UNCHANGED <<episode, upcoming>>
    BY <1>2, OtherLeaf DEF RInv, InOrder
  <1>3. CASE episode' = episode + 1 /\ upcoming' = [l \in Leaves |-> <<>>]
    <2>1. InOrder' => signaling = "ideal" /\ InOrder
      BY <1>1, <1>3, TrainingAssumption DEF InOrder, MainType
    <2> SUFFICES ASSUME signaling = "ideal", InOrder, NEW k \in Leaves
                 PROVE  Queue(k)' /\ RingOf(k)'
      BY <2>1 DEF RInv
    <2>2. Queue(k) /\ RingOf(k)
      BY DEF RInv
    <2>3. upcoming'[k] = upcoming[k]
      BY <1>3, <2>2 DEF Queue
    <2> QED BY <2>2, <2>3, OtherLeaf
  <1> QED BY <1>2, <1>3

LEMMA InitRing == Init => RInv
  <1> SUFFICES ASSUME Init, NEW l \in Leaves PROVE Queue(l) /\ RingOf(l)
    BY DEF RInv
  <1>1. /\ fwd[l] = "iterate" /\ transitions[l] = 0 /\ upcoming[l] = <<>> /\ total[l] = 0
        /\ storage[l] = <<>> /\ nextIdx[l] = 0
    BY DEF Init
  <1>2. Len(upcoming[l]) = 0 /\ Len(storage[l]) = 0
    BY <1>1, EmptySeq
  <1>3. Queue(l)
    BY <1>1, <1>2 DEF Queue, InHand, Unpushed
  <1>4. RingOf(l)
    BY <1>1, <1>2, TrainingAssumption DEF RingOf, Ring, Position, StoredCount, Smaller
  <1> QED BY <1>3, <1>4

LEMMA NextRing == IInv /\ RInv /\ [Next]_vars => RInv'
  <1> SUFFICES ASSUME IInv, RInv, [Next]_vars PROVE RInv'
    OBVIOUS
  <1>1. ASSUME NEW l \in Leaves, NEW elapsed \in Elapsed, Respond(l, elapsed)
        PROVE  RInv'
    BY <1>1, RespondRing
  <1>2. ASSUME NEW l \in Leaves, ForwarderStep(l) PROVE RInv'
    BY <1>2, ForwarderRing
  <1>3. ASSUME NEW l \in Leaves, Trainer(l) PROVE RInv'
    <2>1. UNCHANGED mainVars /\ UNCHANGED fwdVars
      BY <1>3 DEF Trainer, TrainerIterate, TrainerStops, Sample, GradientStep
    <2> QED BY <2>1, OthersRing DEF mainVars, fwdVars
  <1>4. CASE NextEpisode
    BY <1>4, OthersRing DEF NextEpisode
  <1>5. CASE StopTrainers \/ JoinTimeout \/ Joined \/ SaveAllModels
    BY <1>5, OthersRing DEF StopTrainers, JoinTimeout, Joined, SaveAllModels, fwdVars
  <1>6. ASSUME NEW l \in Leaves, Drain(l) PROVE RInv'
    BY <1>6, OthersRing DEF Drain, mainVars, fwdVars
  <1>7. CASE UNCHANGED vars
    BY <1>7, OthersRing DEF vars, mainVars, fwdVars
  <1> QED BY <1>1, <1>2, <1>3, <1>4, <1>5, <1>6, <1>7 DEF Next, MainEnd, Finished

\* The buffer holds the latest samples, in their order, the oldest where the
\* next one will go.
THEOREM RingIsExact == Spec => []RingHoldsLatest
  <1>1. RInv => RingHoldsLatest
    BY DEF RInv, RingOf, Ring, RingHoldsLatest
  <1>2. Spec => []RInv
    BY InitRing, NextRing, Invariance, PTL DEF Spec
  <1> QED BY <1>1, <1>2, PTL


-----------------------------------------------------------------------------
(* The batches: a trainer samples only when gradient steps are due, hence   *)
(* after LearningStarts samples have been counted, all but the one in hand  *)
(* stored.                                                                  *)

BInv ==
    \A l \in Leaves :
      /\ Training(l) => signaling = "ideal"
      /\ trainer[l] = "update" => batchFrom[l] >= Smaller(LearningStarts - 1, Size)
      /\ LearningStarts > 1 /\ signaling = "ideal" => trainer[l] # "dead"

\* A trainer that samples finds all samples counted but one.
LEMMA SampleFinds ==
    ASSUME IInv, RInv, BInv, NEW l \in Leaves, trainer[l] = "sample"
    PROVE  /\ Len(storage[l]) >= Smaller(LearningStarts - 1, Size)
           /\ LearningStarts > 1 => storage[l] # <<>>
  <1>1. FwdType /\ TrainerType
    BY TypeParts DEF IInv
  <1>2. total[l] \in Nat /\ steps[l] \in Nat /\ left[l] \in Nat
    BY <1>1 DEF FwdType, TrainerType
  <1>3. left[l] > 0 /\ steps[l] + left[l] <= Schedule(total[l])
    BY DEF IInv, WorkIsDue, Training
  <1>4. total[l] >= LearningStarts
    <2>1. total[l] < LearningStarts => Schedule(total[l]) = 0
      BY DEF Schedule
    <2> QED BY <1>2, <1>3, <2>1, TrainingAssumption
  <1>5. Ring(storage[l], Position(l), StoredCount(l))
    BY DEF BInv, Training, RInv, InOrder, RingOf
  <1>6. Len(storage[l]) = Smaller(StoredCount(l), Size)
    BY <1>5 DEF Ring
  <1>7. StoredCount(l) \in Nat /\ StoredCount(l) >= LearningStarts - 1
    BY <1>2, <1>4, TrainingAssumption DEF StoredCount
  <1>8. Len(storage[l]) >= Smaller(LearningStarts - 1, Size)
    BY <1>6, <1>7, TrainingAssumption DEF Smaller
  <1>9. LearningStarts > 1 => Len(storage[l]) # 0
    BY <1>6, <1>7, TrainingAssumption DEF Smaller
  <1>10. storage[l] = <<>> => Len(storage[l]) = 0
    BY EmptySeq
  <1> QED BY <1>8, <1>9, <1>10

LEMMA TrainerBatch ==
    ASSUME IInv, RInv, BInv, NEW l \in Leaves, Trainer(l)
    PROVE  BInv'
  <1>1. TrainerType /\ MainType
    BY TypeParts DEF IInv
  <1>2. signaling' = signaling
    BY DEF Trainer, TrainerIterate, TrainerStops, Sample, GradientStep, mainVars
  <1>3. CASE TrainerIterate(l)
    <2>1. /\ batchFrom' = batchFrom
          /\ \/ signaling = "NN" /\ trainer' = [trainer EXCEPT ![l] = "dead"]
             \/ signaling # "NN" /\ trainer' = [trainer EXCEPT ![l] = "sample"]
      BY <1>3 DEF TrainerIterate
    <2>2. signaling # "NN" => signaling = "ideal"
      BY <1>1, TrainingAssumption DEF MainType
    <2> QED BY <1>1, <1>2, <2>1, <2>2 DEF BInv, Training, TrainerType
  <1>4. CASE TrainerStops(l)
    <2>1. batchFrom' = batchFrom /\ trainer' = [trainer EXCEPT ![l] = "ended"]
      BY <1>4 DEF TrainerStops
    <2> QED BY <1>1, <1>2, <2>1 DEF BInv, Training, TrainerType
  <1>5. CASE Sample(l)
    <2>1. /\ trainer[l] = "sample"
          /\ \/ /\ storage[l] = <<>> /\ batchFrom' = batchFrom
                /\ trainer' = [trainer EXCEPT ![l] = "dead"]
             \/ /\ trainer' = [trainer EXCEPT ![l] = "update"]
                /\ batchFrom' = [batchFrom EXCEPT ![l] = Len(storage[l])]
      BY <1>5 DEF Sample
    <2>2. /\ Len(storage[l]) >= Smaller(LearningStarts - 1, Size)
          /\ LearningStarts > 1 => storage[l] # <<>>
      BY <2>1, SampleFinds
    <2>3. signaling = "ideal"
      BY <2>1 DEF BInv, Training
    <2> QED BY <1>1, <1>2, <2>1, <2>2, <2>3 DEF BInv, Training, TrainerType
  <1>6. CASE GradientStep(l)
    <2>1. /\ trainer[l] = "update" /\ batchFrom' = batchFrom
          /\ \/ trainer' = [trainer EXCEPT ![l] = "wait"]
             \/ trainer' = [trainer EXCEPT ![l] = "sample"]
      BY <1>6 DEF GradientStep
    <2> QED BY <1>1, <1>2, <2>1 DEF BInv, Training, TrainerType
  <1> QED BY <1>3, <1>4, <1>5, <1>6 DEF Trainer

LEMMA NextBatch == IInv /\ RInv /\ BInv /\ [Next]_vars => BInv'
  <1> SUFFICES ASSUME IInv, RInv, BInv, [Next]_vars PROVE BInv'
    OBVIOUS
  <1>1. ASSUME NEW l \in Leaves, Trainer(l) PROVE BInv'
    BY <1>1, TrainerBatch
  <1>2. ASSUME UNCHANGED <<signaling, trainer, batchFrom>> PROVE BInv'
    BY <1>2 DEF BInv, Training
  <1>3. ASSUME NEW l \in Leaves,
               ForwarderStep(l) \/ \E elapsed \in Elapsed : Respond(l, elapsed)
        PROVE  BInv'
    <2>1. UNCHANGED <<signaling, trainer, batchFrom>>
      BY <1>3 DEF ForwarderStep, AddStep, GetUpcomingEvent, PushUpcomingEvent, AddCount,
                  AddStore, AddAdvance, Respond, mainVars, trainerVars
    <2> QED BY <1>2, <2>1
  <1>4. CASE NextEpisode \/ StopTrainers \/ JoinTimeout \/ MainEnd
    BY <1>2, <1>4 DEF NextEpisode, StopTrainers, JoinTimeout, MainEnd, Joined, Drain,
                      SaveAllModels, trainerVars, mainVars
  <1>5. CASE UNCHANGED vars
    BY <1>2, <1>5 DEF vars, trainerVars, mainVars
  <1> QED BY <1>1, <1>3, <1>4, <1>5 DEF Next, Finished

\* However the forwarder's three steps of an add interleave with the trainer, a
\* batch is drawn from all the samples the schedule asks for, but one; and when
\* learning starts after more than one sample, no trainer dies on an empty
\* buffer.  (With one it may: total_samples is counted before the first sample
\* is stored.)
THEOREM BatchesAreLargeEnough ==
    ASSUME LearningStarts > 1
    PROVE  Spec => []BatchLargeEnough
  <1>1. Init => BInv
    BY DEF Init, BInv, Training
  <1>2. Spec => []RInv
    BY InitRing, NextRing, Invariance, PTL DEF Spec
  <1>3. Spec => []BInv
    BY <1>1, <1>2, NextBatch, Invariance, PTL DEF Spec
  <1>4. BInv => BatchLargeEnough
    BY DEF BInv, BatchLargeEnough
  <1> QED BY <1>3, <1>4, PTL
=============================================================================
