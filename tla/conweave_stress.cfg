SPECIFICATION Spec
CONSTANTS
 p1 = p1
 p2 = p2
 Paths = {p1, p2}
 DefaultPath = none
 SlotOf <- MCSlotOf
 MinDelay <- MCMinDelay
 MaxDelay <- MCJitter
 MinCtlDelay = 2
 MaxCtlDelay = 2
 BaseRTT = 3
 ExtraReplyDeadline = 1
 ExtraVOQFlushTime = 1
 TxExpiryTime = 5
 DefaultVOQWaitingTime = 6
 PathPauseTime = 2
 AgingTime = 7
 CwMaxTime = 100
 StartTime = 6
 AgingPhases = {4}
 EcnMarks = {FALSE}
 MaxLosses = 1
 MaxPkts = 4
 Horizon = 20
INVARIANTS AssertionsHold EachPacketOnce OnePathPerPhase StabilizedMeansSettled
CHECK_DEADLOCK FALSE
