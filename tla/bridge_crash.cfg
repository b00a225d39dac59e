SPECIFICATION FairSpec
CONSTANTS
 NLeaves = 2
 NumEpisodes = 1
 MaxPkts = 2
 NumActions = 1
 DeadActions = {}
 MayBeTaken = {}
 CanCrash = TRUE
 TempLimit = 1
 TempDrop = 1
PROPERTIES CrashEndsRun
CHECK_DEADLOCK FALSE
