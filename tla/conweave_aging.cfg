SPECIFICATION Spec
CONSTANTS
 p1 = p1
 p2 = p2
 Paths = {p1, p2}
 DefaultPath = none
 SlotOf <- MCSlotOf
 MinDelay <- MCMinDelay
 MaxDelay <- MCSmall
 MinCtlDelay = 2
 MaxCtlDelay = 2
 BaseRTT = 3
 ExtraReplyDeadline = 1
 ExtraVOQFlushTime = 3
 TxExpiryTime = 8
 DefaultVOQWaitingTime = 2
 PathPauseTime = 2
 AgingTime = 10
 CwMaxTime = 100
 StartTime = 9
 AgingPhases = {7}
 EcnMarks = {FALSE}
 MaxLosses = 0
 MaxPkts = 5
 Horizon = 34
INVARIANTS HostSeesOrder
CHECK_DEADLOCK FALSE
