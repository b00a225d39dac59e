SPECIFICATION FairSpec
CONSTANTS
 p1 = p1
 p2 = p2
 Paths = {p1, p2}
 DefaultPath = none
 SlotOf <- MCSlotOf
 MinDelay <- MCMinDelay
 MaxDelay <- MCSmall
 MinCtlDelay = 2
 MaxCtlDelay = 2
 BaseRTT = 3
 ExtraReplyDeadline = 1
 ExtraVOQFlushTime = 3
 TxExpiryTime = 8
 DefaultVOQWaitingTime = 2
 PathPauseTime = 12
 AgingTime = 60
 CwMaxTime = 100
 StartTime = 9
 AgingPhases = {60}
 EcnMarks = {TRUE, FALSE}
 MaxLosses = 0
 MaxPkts = 4
 Horizon = 23
INVARIANTS TypeOK
PROPERTIES DeliversInOrder DeliversEverything RerouteSettles PausedPathAvoided
CHECK_DEADLOCK FALSE
