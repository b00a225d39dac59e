SPECIFICATION Spec
CONSTANTS
 NPorts = 2
 Classes = {2}
 MTU = 2
 QCnt = 3
 MaxBufferBytes = 22
 HdrmLimit <- MCSmall
 AlphaNum = 1
 AlphaDen = 2
 EgressNum = 1
 EgressDen = 1
 AlphaOff = 1
 PktSizes = {2}
 Routes <- MCOneWay
 TxTime = 2
 PeerTxTime = 1
 Delay = 1
 PauseTime = 4
 Garbage = {FALSE}
 PausedFromBelow = {}
PROPERTIES SkipMeansNotPaused
