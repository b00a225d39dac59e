------------------------- MODULE TrainingProperties -------------------------
(***************************************************************************)
(* What the replay buffers, the trainers and the final checkpoint promise. *)
(***************************************************************************)
EXTENDS ReplayTraining

\* Every variable is of its type.
TrainTypeOK ==
    /\ signaling \in Signalings /\ now \in Nat /\ episode \in 1..NumEpisodes
    /\ fwd \in [Leaves -> {"iterate", "events", "add", "store", "advance"}]
    /\ transitions \in [Leaves -> Nat] /\ sample \in [Leaves -> Nat]
    /\ upcoming \in [Leaves -> Seq([time : Nat, sample : Nat])]
    /\ total \in [Leaves -> Nat]
    /\ storage \in [Leaves -> Seq(Nat)]
    /\ nextIdx \in [Leaves -> 0..(Size - 1)]
    /\ trainer \in [Leaves -> {"wait", "sample", "update", "ended", "dead"}]
    /\ left \in [Leaves -> Nat]
    /\ batchFrom \in [Leaves -> Nat]
    /\ steps \in [Leaves -> Nat] /\ targets \in [Leaves -> Nat]
    /\ main \in {"poll", "join", "drain", "saved", "refused"}
    /\ stop \in BOOLEAN /\ saved \in [Leaves -> Nat]

-----------------------------------------------------------------------------
(* The replay buffer.                                                      *)

\* The samples whose storing has been completed.
StoredCount(l) == IF fwd[l] = "store" THEN total[l] - 1 ELSE total[l]

\* Where the next sample goes; between store and advance _next_idx lags.
Position(l) == IF fwd[l] = "advance" THEN Following(nextIdx[l]) ELSE nextIdx[l]

\* Samples are lost only at the end of an episode, with the queue.
InOrder == signaling = "ideal" \/ episode = 1

\* The buffer holds the latest Size samples, the oldest where the next one
\* will go, so that nothing recent is overwritten and nothing stale stays.
RingHoldsLatest ==
    InOrder => \A l \in Leaves :
      /\ Len(storage[l]) = Smaller(StoredCount(l), Size)
      /\ \A i \in 1..Len(storage[l]) :
           storage[l][i] = StoredCount(l) - Position(l) + i
                           - (IF i <= Position(l) THEN 0 ELSE Len(storage[l]))

-----------------------------------------------------------------------------
(* The trainers.                                                           *)

\* Learning follows the samples and nothing else: no trainer, however the
\* threads interleave and whoever does the steps, is ahead of its schedule,
\* and the lagged network is as old as the schedule says.
NeverAhead ==
    \A l \in Leaves :
      /\ steps[l] <= Schedule(total[l])
      /\ targets[l] = steps[l] \div TargetUpdateInterval

\* A batch is drawn from at least the samples the schedule asks for, but one:
\* total_samples is ahead of the storage while a sample is being stored.  So
\* with ideal signalling no trainer dies for want of samples if learning starts
\* after more than one.
BatchLargeEnough ==
    \A l \in Leaves :
      /\ trainer[l] = "update" => batchFrom[l] >= Smaller(LearningStarts - 1, Size)
      /\ signaling = "ideal" => trainer[l] # "dead"

\* Nobody trains a model while main drains and saves it.
OneTrainerPerModel ==
    main \in {"drain", "saved"} => \A l \in Leaves : trainer[l] \notin {"sample", "update"}

\* "The deterministic number of DQN updates due": the checkpoint holds exactly
\* the updates its samples imply, though threads ran at any speed, a stop cut
\* a trainer short or a trainer died.
CheckpointExact ==
    main = "saved" => \A l \in Leaves : saved[l] = Schedule(total[l])

\* Every update that the samples make due is made in the end, however far the
\* trainer is behind: by its bounded rounds while simulations run, and what a
\* stop leaves over by the drain, unless the checkpoint is refused.
EveryUpdateMade ==
    signaling = "ideal" =>
      \A l \in Leaves, n \in 1..Schedule(MaxSamples) :
        Schedule(total[l]) >= n ~> (steps[l] >= n \/ main = "refused")

\* A stop is followed by a checkpoint or by the refusal of one.
StopEnds == stop ~> main \in {"saved", "refused"}

=============================================================================
