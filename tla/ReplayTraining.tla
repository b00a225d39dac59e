--------------------------- MODULE ReplayTraining ---------------------------
(***************************************************************************)
(* Learning beside the simulation (src/prisma): each leaf's forwarder      *)
(* thread fills a replay buffer, its trainer thread reads it without a     *)
(* lock, and the main thread stops, joins and drains the trainers before   *)
(* it saves the models.                                                    *)
(*                                                                         *)
(* A sample is named by its position in the order in which the forwarder   *)
(* wrote it; a model is named by the number of gradient steps in it.       *)
(***************************************************************************)
EXTENDS Integers, Sequences

CONSTANTS
    Leaves,                 \* 1..n, in the order of their indices
    Size,                   \* replay_buffer_max_size
    LearningStarts, TrainEvery, TargetUpdateInterval,
    MaxSteps,               \* gradient steps of one train_available: 8
    Signalings,             \* subset of {"ideal", "NN"}
    SignalDelay,            \* small_signaling_delay
    NumEpisodes,
    MaxSamples              \* bound: transitions of one leaf

ASSUME TrainingAssumption ==
    /\ Leaves \subseteq Nat /\ Size \in Nat \ {0}
    /\ LearningStarts \in Nat \ {0} /\ TrainEvery \in Nat \ {0}
    /\ TargetUpdateInterval \in Nat \ {0} /\ MaxSteps \in Nat \ {0}
    /\ Signalings \subseteq {"ideal", "NN"} /\ SignalDelay \in Nat
    /\ NumEpisodes \in Nat \ {0} /\ MaxSamples \in Nat

VARIABLES
    signaling,
    now,            \* Agent.curr_time
    episode,
    \* the forwarder and its replay buffer
    fwd,            \* where the thread is: "iterate", "events", "add..."
    transitions,    \* transitions written so far
    upcoming,       \* upcoming_events: transitions on their way
    total,          \* total_samples
    storage,        \* _storage
    nextIdx,        \* _next_idx
    sample,         \* the argument of add
    \* the trainer
    trainer,        \* where the thread is
    left,           \* gradient steps left of this train_available
    batchFrom,      \* how many samples the batch was drawn from
    steps,          \* gradient_step_idx
    targets,        \* target_update_count
    \* the main thread
    main,
    stop,           \* stop_event is set
    saved           \* the models of the final checkpoint

fwdVars == <<fwd, transitions, upcoming, total, storage, nextIdx, sample>>
trainerVars == <<trainer, left, batchFrom, steps, targets>>
mainVars == <<signaling, now, episode, main, stop, saved>>
vars == <<fwdVars, trainerVars, mainVars>>

Init ==
    /\ signaling \in Signalings
    /\ now = 0 /\ episode = 1
    /\ fwd = [l \in Leaves |-> "iterate"]
    /\ transitions = [l \in Leaves |-> 0]
    /\ upcoming = [l \in Leaves |-> <<>>]
    /\ total = [l \in Leaves |-> 0]
    /\ storage = [l \in Leaves |-> <<>>]
    /\ nextIdx = [l \in Leaves |-> 0]
    /\ sample = [l \in Leaves |-> 0]
    /\ trainer = [l \in Leaves |-> "wait"]
    /\ left = [l \in Leaves |-> 0]
    /\ batchFrom = [l \in Leaves |-> 0]
    /\ steps = [l \in Leaves |-> 0]
    /\ targets = [l \in Leaves |-> 0]
    /\ main = "poll" /\ stop = FALSE
    /\ saved = [l \in Leaves |-> 0]

-----------------------------------------------------------------------------
(* The forwarder.                                                          *)

\* Mutant: samples count from the first one.
ScheduleFromFirst(samples) == samples \div TrainEvery

\* scheduled_gradient_steps
Schedule(samples) ==
    IF samples < LearningStarts THEN 0
    ELSE 1 + (samples - LearningStarts) \div TrainEvery

\* Only events on their way depend on the time that passes.
Elapsed == IF signaling = "NN" THEN 0..SignalDelay ELSE {0}

\* A response of the simulator that closes a transition, some time later.
\* With ideal signalling it is stored at once; with NN it is pushed as an
\* event, after the events that are due have been stored.
Respond(l, elapsed) ==
    /\ main = "poll" /\ fwd[l] = "iterate" /\ transitions[l] < MaxSamples
    /\ now' = now + elapsed
    /\ transitions' = [transitions EXCEPT ![l] = @ + 1]
    /\ fwd' = [fwd EXCEPT ![l] = IF signaling = "NN" THEN "events" ELSE "add"]
    /\ sample' = [sample EXCEPT ![l] = IF signaling = "NN" THEN @
                                                           ELSE transitions[l] + 1]
    /\ UNCHANGED <<signaling, episode, main, stop, saved, upcoming, total, storage,
                   nextIdx, trainerVars>>

EventDue(l) == upcoming[l] # <<>> /\ Head(upcoming[l]).time <= now

\* _get_upcoming_events: the due event at the head becomes a sample.
GetUpcomingEvent(l) ==
    /\ fwd[l] = "events" /\ EventDue(l)
    /\ sample' = [sample EXCEPT ![l] = Head(upcoming[l]).sample]
    /\ upcoming' = [upcoming EXCEPT ![l] = Tail(@)]
    /\ fwd' = [fwd EXCEPT ![l] = "add"]
    /\ UNCHANGED <<mainVars, transitions, total, storage, nextIdx, trainerVars>>

\* _push_upcoming_event keeps the queue sorted by time: the delay is the same
\* for all, so the new event is the last.
PushUpcomingEvent(l) ==
    /\ fwd[l] = "events" /\ ~EventDue(l)
    /\ upcoming' = [upcoming EXCEPT ![l] =
         Append(@, [time |-> now + SignalDelay, sample |-> transitions[l]])]
    /\ fwd' = [fwd EXCEPT ![l] = "iterate"]
    /\ UNCHANGED <<mainVars, transitions, total, storage, nextIdx, sample, trainerVars>>

\* ReplayBuffer.add: it counts the sample, stores it, moves the index.
AddCount(l) ==
    /\ fwd[l] = "add"
    /\ total' = [total EXCEPT ![l] = @ + 1]
    /\ fwd' = [fwd EXCEPT ![l] = "store"]
    /\ UNCHANGED <<mainVars, transitions, upcoming, storage, nextIdx, sample, trainerVars>>

AddStore(l) ==
    /\ fwd[l] = "store"
    /\ storage' = [storage EXCEPT ![l] =
         IF nextIdx[l] >= Len(@) THEN Append(@, sample[l])
                                 ELSE [@ EXCEPT ![nextIdx[l] + 1] = sample[l]]]
    /\ fwd' = [fwd EXCEPT ![l] = "advance"]
    /\ UNCHANGED <<mainVars, transitions, upcoming, total, nextIdx, sample, trainerVars>>

\* Mutant: the index does not return to the first slot.
FollowingUnwrapped(idx) == idx + 1

\* Mutant: the last slot of the ring is never used.
FollowingEarly(idx) == IF idx + 2 >= Size THEN 0 ELSE idx + 1

\* (_next_idx + 1) % _maxsize, for an index below _maxsize.
Following(idx) == IF idx + 1 = Size THEN 0 ELSE idx + 1

AddAdvance(l) ==
    /\ fwd[l] = "advance"
    /\ nextIdx' = [nextIdx EXCEPT ![l] = Following(@)]
    /\ fwd' = [fwd EXCEPT ![l] = IF signaling = "NN" THEN "events" ELSE "iterate"]
    /\ UNCHANGED <<mainVars, transitions, upcoming, total, storage, sample, trainerVars>>

AddStep(l) == AddCount(l) \/ AddStore(l) \/ AddAdvance(l)

ForwarderStep(l) == GetUpcomingEvent(l) \/ PushUpcomingEvent(l) \/ AddStep(l)

-----------------------------------------------------------------------------
(* The trainer.                                                            *)

Smaller(m, n) == IF m < n THEN m ELSE n

\* Mutant: steps that have been done are due again.
PendingAll(l) == Schedule(total[l])

\* pending_gradient_steps
Pending(l) ==
    IF Schedule(total[l]) > steps[l] THEN Schedule(total[l]) - steps[l] ELSE 0

\* Mutant: only full rounds are worked off.
AvailableFull(l) == IF Pending(l) < MaxSteps THEN 0 ELSE MaxSteps

\* The bounded amount of work of one train_available(max_steps=8).
Available(l) == Smaller(Pending(l), MaxSteps)

\* An iteration of Trainer.run.  With NN signalling it calls a method that
\* only Forwarder has: the AttributeError ends the thread.
TrainerIterate(l) ==
    /\ trainer[l] = "wait" /\ ~stop
    /\ IF signaling = "NN"
       THEN trainer' = [trainer EXCEPT ![l] = "dead"] /\ UNCHANGED left
       ELSE /\ Available(l) > 0
            /\ left' = [left EXCEPT ![l] = Available(l)]
            /\ trainer' = [trainer EXCEPT ![l] = "sample"]
    /\ UNCHANGED <<mainVars, fwdVars, batchFrom, steps, targets>>

TrainerStops(l) ==
    /\ trainer[l] = "wait" /\ stop
    /\ trainer' = [trainer EXCEPT ![l] = "ended"]
    /\ UNCHANGED <<mainVars, fwdVars, left, batchFrom, steps, targets>>

\* ReplayBuffer.sample: randint(0, -1) raises when nothing is stored.
Sample(l) ==
    /\ trainer[l] = "sample"
    /\ IF storage[l] = <<>>
       THEN trainer' = [trainer EXCEPT ![l] = "dead"] /\ UNCHANGED batchFrom
       ELSE /\ trainer' = [trainer EXCEPT ![l] = "update"]
            /\ batchFrom' = [batchFrom EXCEPT ![l] = Len(storage[l])]
    /\ UNCHANGED <<mainVars, fwdVars, left, steps, targets>>

\* should_update_target
ShouldUpdateTarget(n) == n > 0 /\ n % TargetUpdateInterval = 0

Updated(l) ==
    /\ steps' = [steps EXCEPT ![l] = @ + 1]
    /\ targets' = [targets EXCEPT ![l] =
         IF ShouldUpdateTarget(steps[l] + 1) THEN @ + 1 ELSE @]

\* The gradient step, and the target network when it is due.
GradientStep(l) ==
    /\ trainer[l] = "update"
    /\ Updated(l)
    /\ left' = [left EXCEPT ![l] = @ - 1]
    /\ trainer' = [trainer EXCEPT ![l] = IF left[l] = 1 THEN "wait" ELSE "sample"]
    /\ UNCHANGED <<mainVars, fwdVars, batchFrom>>

Trainer(l) == TrainerIterate(l) \/ TrainerStops(l) \/ Sample(l) \/ GradientStep(l)

\* Mutant: a thread that has died is waited for.
AliveUntilEnded(l) == trainer[l] # "ended"

\* Thread.is_alive
Alive(l) == trainer[l] \notin {"ended", "dead"}

-----------------------------------------------------------------------------
(* The main thread.                                                        *)

Idle == \A l \in Leaves : fwd[l] = "iterate"

\* The forwarders have ended; Agent.reset before the next simulation, whose
\* clock starts at zero.
NextEpisode ==
    /\ main = "poll" /\ Idle /\ episode < NumEpisodes
    /\ episode' = episode + 1 /\ now' = 0
    /\ upcoming' = [l \in Leaves |-> <<>>]
    /\ UNCHANGED <<signaling, main, stop, saved, fwd, transitions, total, storage,
                   nextIdx, sample, trainerVars>>

\* After the last episode: stop every trainer.
StopTrainers ==
    /\ main = "poll" /\ Idle /\ episode = NumEpisodes
    /\ stop' = TRUE /\ main' = "join"
    /\ UNCHANGED <<signaling, now, episode, saved, fwdVars, trainerVars>>

\* Mutant: drain as soon as the stop is requested.
AllJoinedAtOnce == TRUE

AllJoined == \A l \in Leaves : ~Alive(l)

Joined ==
    /\ main = "join" /\ AllJoined
    /\ main' = "drain"
    /\ UNCHANGED <<signaling, now, episode, stop, saved, fwdVars, trainerVars>>

\* The deadline has passed: "refusing to save a potentially inconsistent
\* checkpoint".
JoinTimeout ==
    /\ main = "join" /\ \E l \in Leaves : Alive(l)
    /\ main' = "refused"
    /\ UNCHANGED <<signaling, now, episode, stop, saved, fwdVars, trainerVars>>

\* Mutant: one leaf's backlog is forgotten.
BacklogButFirst == {l \in Leaves : Pending(l) > 0 /\ \E k \in Leaves : k < l}

Backlog == {l \in Leaves : Pending(l) > 0}

\* drain: the leaves in order, each until nothing is pending.
Drain(l) ==
    /\ main = "drain" /\ l \in Backlog /\ \A k \in Backlog : l <= k
    /\ Updated(l)
    /\ UNCHANGED <<mainVars, fwdVars, trainer, left, batchFrom>>

SaveAllModels ==
    /\ main = "drain" /\ Backlog = {}
    /\ saved' = steps
    /\ main' = "saved"
    /\ UNCHANGED <<signaling, now, episode, stop, fwdVars, trainerVars>>

MainEnd == Joined \/ (\E l \in Leaves : Drain(l)) \/ SaveAllModels

Finished == main \in {"saved", "refused"} /\ UNCHANGED vars

Next ==
    \/ \E l \in Leaves :
         \/ \E elapsed \in Elapsed : Respond(l, elapsed)
         \/ ForwarderStep(l)
         \/ Trainer(l)
    \/ NextEpisode \/ StopTrainers \/ JoinTimeout \/ MainEnd
    \/ Finished

Spec == Init /\ [][Next]_vars

\* Every thread runs; that the simulation goes on or ends is not promised.
FairSpec ==
    /\ Spec
    /\ WF_vars(MainEnd)
    /\ \A l \in Leaves : WF_vars(ForwarderStep(l)) /\ WF_vars(Trainer(l))

=============================================================================
