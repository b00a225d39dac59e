SPECIFICATION FairSpec
CONSTANTS
 NPorts = 2
 Classes = {2, 3}
 MTU = 2
 QCnt = 4
 MaxBufferBytes = 38
 HdrmLimit <- MCTwoMore
 AlphaNum = 1
 AlphaDen = 2
 EgressNum = 1
 EgressDen = 1
 AlphaOff = 1
 PktSizes = {2}
 Routes <- MCOneWay
 TxTime = 2
 PeerTxTime = 1
 Delay = 1
 PauseTime = 12
 Garbage = {FALSE}
 PausedFromBelow = {}
INVARIANTS PfcTypeOK ExcessInHeadroom PauseObeyed HeadroomSuffices PausesOutlast
PROPERTIES PauseEnds NoClassStarves
