SPECIFICATION FairSpec
CONSTANTS
 NLeaves = 3
 NumEpisodes = 2
 MaxPkts = 4
 NumActions = 2
 DeadActions = {1}
 MayBeTaken = {1, 2}
 CanCrash = TRUE
 TempLimit = 1
 TempDrop = 1
INVARIANTS BridgeTypeOK NoSocketMisuse OneHandlerAtATime TransitionsAligned DiagnosticsExact NoZombies OwnPortsFree
PROPERTIES ProgramEnds
CHECK_DEADLOCK FALSE
