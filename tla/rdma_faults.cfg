SPECIFICATION FairSpec
CONSTANTS
 NumPackets = 4
 Modes = {TRUE, FALSE}
 Win = 3
 Bdp = 2
 MaxFaults = 2
 MaxInFlight = 4
INVARIANTS RdmaTypeOK AckedMeansArrived AssertionsHold WindowRespected
PROPERTIES ReliableTransfer FlowCompletes
CHECK_DEADLOCK FALSE
