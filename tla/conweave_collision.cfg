SPECIFICATION Spec
CONSTANTS
 p1 = p1
 p2 = p2
 Paths = {p1, p2}
 DefaultPath = none
 SlotOf <- MCOneSlot
 MinDelay <- MCMinDelay
 MaxDelay <- MCSmall
 MinCtlDelay = 2
 MaxCtlDelay = 2
 BaseRTT = 3
 ExtraReplyDeadline = 1
 ExtraVOQFlushTime = 3
 TxExpiryTime = 7
 DefaultVOQWaitingTime = 2
 PathPauseTime = 9
 AgingTime = 60
 CwMaxTime = 100
 StartTime = 8
 AgingPhases = {60}
 EcnMarks = {TRUE, FALSE}
 MaxLosses = 0
 MaxPkts = 4
 Horizon = 17
PROPERTIES PausedPathKept
CHECK_DEADLOCK FALSE
