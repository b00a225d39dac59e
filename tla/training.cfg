SPECIFICATION FairSpec
CONSTANTS
 Leaves = {1, 2}
 Size = 2
 LearningStarts = 2
 TrainEvery = 1
 TargetUpdateInterval = 2
 MaxSteps = 2
 Signalings = {"ideal", "NN"}
 SignalDelay = 1
 NumEpisodes = 2
 MaxSamples = 4
INVARIANTS TrainTypeOK RingHoldsLatest NeverAhead BatchLargeEnough OneTrainerPerModel CheckpointExact
PROPERTIES EveryUpdateMade StopEnds
