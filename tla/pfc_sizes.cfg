SPECIFICATION Spec
CONSTANTS
 NPorts = 2
 Classes = {2}
 MTU = 2
 QCnt = 3
 MaxBufferBytes = 22
 HdrmLimit <- MCSmall
 AlphaNum = 1
 AlphaDen = 2
 EgressNum = 1
 EgressDen = 3
 AlphaOff = 1
 PktSizes = {1, 2}
 Routes <- MCOneWay
 TxTime = 2
 PeerTxTime = 1
 Delay = 1
 PauseTime = 2
 Garbage = {TRUE, FALSE}
 PausedFromBelow <- MCPausableOut
INVARIANTS IngressAccounted EgressAccounted
